---- MODULE Spec2Model ----
(***************************************************************************)
(* lazy-lens (PromptAlbumBuilder): the prompt parser, the pattern matcher  *)
(* and the two front-ends that run them (core/matcher.py, app.py,          *)
(* .kiro/hooks/album.py).                                                  *)
(*                                                                         *)
(* Representation.  A Python str is a sequence of one-character strings.   *)
(* An Optional value is a set with at most one element: None is {} and a   *)
(* present value x is {x}.  A datetime is its month ordinal                *)
(* year * 12 + (month - 1); days are not represented.  A DateFilter is an  *)
(* object of `heap`; a spec's date_filter is its index in `heap`, or 0 for *)
(* None, so that two specs holding the same object share one heap cell.    *)
(***************************************************************************)
EXTENDS Integers, Sequences, FiniteSets, TLC

VARIABLES
    frontend,     \* "cli" (.kiro/hooks/album.py), "app" (app.py) or "api" (direct calls)
    pc,           \* position of the running front-end's main()
    prompt,       \* the prompt text given to the run
    dry_run,      \* the run's dry-run flag
    month_filter, \* app.py: the month selected in the sidebar (None for "All")
    year_filter,  \* app.py: the year selected in the sidebar (None for "All")
    heap,         \* the DateFilter objects created so far
    dates,        \* parse(): the list returned by extract_dates (heap indices)
    album_specs,  \* the AlbumSpec list (PatternMatcher.album_specs)
    photos,       \* the photo list given to match()
    mpc,          \* position inside PatternMatcher.match
    idx,          \* match(): index of the next photo of the for loop
    matched,      \* match(): dict album name -> list of photos
    unmatched,    \* match(): list of unmatched photos
    match_stats,  \* match(): dict album name -> count
    steps,        \* the pipeline steps the run has executed, in order
    outcome,      \* how the run ended: "running", "ok", "error", "empty"
    earlier,      \* the MatchResult an earlier match call of the matcher returned
    other,        \* a match call of another PatternMatcher, running meanwhile
    backup_mode,  \* --backup / "Backup Mode": copy the photos instead of moving
    config,       \* the configuration file and the Config object's _config
    fs,           \* what exists under the target folder and the log folder
    source,       \* the paths of the photo files that exist in the source folder
    albums,       \* the list of Album objects create_albums returned
    placed        \* the copies and moves organize_photos has carried out, in order

vars == <<frontend, pc, prompt, dry_run, month_filter, year_filter, heap, dates,
          album_specs, photos, mpc, idx, matched, unmatched, match_stats, steps,
          outcome, earlier, other, backup_mode, config, fs, source, albums, placed>>
\* the inputs of a run, which no step changes
vars_run == <<frontend, prompt, dry_run, month_filter, year_filter, backup_mode>>
\* what parse produces
vars_parse == <<heap, dates, album_specs>>
\* the state of a match call
vars_match == <<photos, mpc, idx, matched, unmatched, match_stats>>
\* the other match calls around this one
vars_calls == <<earlier, other>>
\* the configuration, the file system and what create_albums produced
vars_env == <<config, fs, source, albums, placed>>

(***************************************************************************)
(* Bounds of the model                                                     *)
(***************************************************************************)
MaxSpecs == 2       \* longest spec list given directly to PatternMatcher
MaxPhotos == 2      \* longest photo list given to match
MaxKwLen == 3       \* longest keyword of the keyword/candidate specification
MaxCandLen == 2     \* longest candidate string of that specification
MaxTokens == 3      \* most tokens of a prompt given directly to parse

(***************************************************************************)
(* Python values                                                           *)
(***************************************************************************)
None == {}
Some(x) == {x}
TheValue(opt) == CHOOSE x \in opt : TRUE
\* truth value of an Optional[int]: None and 0 are false
TruthyInt(opt) == opt # {} /\ opt # {0}
\* truth value of an Optional[str]: None and "" are false
TruthyStr(opt) == opt # {} /\ opt # {<<>>}
\* truth value of an Optional[object] without __bool__/__len__ (datetime)
TruthyObj(opt) == opt # {}

Range(s) == {s[k] : k \in DOMAIN s}

UpperLetters == <<"A","B","C","D","E","F","G","H","I","J","K","L","M",
                  "N","O","P","Q","R","S","T","U","V","W","X","Y","Z">>
LowerLetters == <<"a","b","c","d","e","f","g","h","i","j","k","l","m",
                  "n","o","p","q","r","s","t","u","v","w","x","y","z">>
Digits == <<"0","1","2","3","4","5","6","7","8","9">>

UpperSet == Range(UpperLetters)
LowerSet == Range(LowerLetters)
DigitSet == Range(Digits)
ToLower == [c \in UpperSet |-> LowerLetters[CHOOSE k \in DOMAIN UpperLetters : UpperLetters[k] = c]]
ToUpper == [c \in LowerSet |-> UpperLetters[CHOOSE k \in DOMAIN LowerLetters : LowerLetters[k] = c]]
DigitValue == [c \in DigitSet |-> (CHOOSE k \in DOMAIN Digits : Digits[k] = c) - 1]

lower_char(c) == IF c \in UpperSet THEN ToLower[c] ELSE c
upper_char(c) == IF c \in LowerSet THEN ToUpper[c] ELSE c
\* str.lower()
lower(s) == [k \in 1..Len(s) |-> lower_char(s[k])]

\* `needle in hay` on two str
RECURSIVE str_in_from(_, _, _)
str_in_from(needle, hay, k) ==
    IF k + Len(needle) - 1 > Len(hay) THEN FALSE
    ELSE IF SubSeq(hay, k, k + Len(needle) - 1) = needle THEN TRUE
    ELSE str_in_from(needle, hay, k + 1)
str_in(needle, hay) == str_in_from(needle, hay, 1)

\* str.replace('*', '.*')
RECURSIVE replace_star(_)
replace_star(s) ==
    IF s = <<>> THEN <<>>
    ELSE (IF Head(s) = "*" THEN <<".", "*">> ELSE <<Head(s)>>) \o replace_star(Tail(s))

(***************************************************************************)
(* re.search(pattern, text, re.IGNORECASE) for the patterns match_filename *)
(* and match_folder build: "^" followed by literal characters, "." and     *)
(* starred atoms.  "." is any character (the model has no line breaks), a  *)
(* starred atom repeats zero or more times, any other character is itself  *)
(* up to case.                                                             *)
(***************************************************************************)
re_atom(a, c) == a = "." \/ lower_char(a) = lower_char(c)

RECURSIVE re_match_here(_, _, _, _)
re_match_here(pattern, p, text, t) ==
    IF p > Len(pattern) THEN TRUE
    ELSE IF p + 1 <= Len(pattern) /\ pattern[p + 1] = "*"
    THEN \/ re_match_here(pattern, p + 2, text, t)
         \/ /\ t <= Len(text)
            /\ re_atom(pattern[p], text[t])
            /\ re_match_here(pattern, p, text, t + 1)
    ELSE /\ t <= Len(text)
         /\ re_atom(pattern[p], text[t])
         /\ re_match_here(pattern, p + 1, text, t + 1)

\* the pattern starts with "^": the search can only succeed at position 0
re_search(pattern, text) == re_match_here(pattern, 2, text, 1)

\* re.search compiles the pattern first and raises re.error on one it cannot
\* compile; of the patterns the model builds, those with an opening
\* parenthesis that is never closed ("missing ), unterminated subpattern")
re_error(pattern) ==
    \E k \in DOMAIN pattern :
        pattern[k] = "(" /\ \A j \in (k + 1)..Len(pattern) : pattern[j] # ")"

(***************************************************************************)
(* PatternMatcher                                                          *)
(***************************************************************************)
\* ---- core/config.py ----
\* The configuration file: whether it exists, whether it is YAML, and what
\* yaml.safe_load gives for it (None for an empty file, else a dict).  A
\* value is "" (falsy), "photos" (a directory that exists) or "nowhere" (a
\* path that does not exist).
ConfigFields == {"source_folder", "target_albums_folder"}

FieldValues == {"", "photos", "nowhere"}

YamlDicts == UNION {[ks -> FieldValues] : ks \in SUBSET ConfigFields}

MissingFile == [exists |-> FALSE, yaml_ok |-> TRUE, content |-> None]

ValidFile ==
    [exists |-> TRUE, yaml_ok |-> TRUE,
     content |-> Some([f \in ConfigFields |-> "photos"])]

ConfigFiles ==
    {MissingFile, [exists |-> TRUE, yaml_ok |-> FALSE, content |-> None]}
    \cup {[exists |-> TRUE, yaml_ok |-> TRUE, content |-> c] :
             c \in {None} \cup {Some(d) : d \in YamlDicts}}

\* Config(config_path): self._config = None
Config(file) == [file |-> file, _config |-> None]

\* the Config object of a program that reads a valid file
NoConfig == Config(ValidFile)

\* `not self._config`: None or an empty dict
not_config(c) == c = None \/ \E d \in c : DOMAIN d = {}

\* Config.validate
validate(c) ==
    /\ ~not_config(c)
    /\ \A d \in c : \A field \in ConfigFields :
          field \in DOMAIN d /\ d[field] # ""

\* what a call gives: the object afterwards, the exception raised ("" when
\* none) and the value returned (None when it raised)
Raised(cfg, exception) == [config |-> cfg, raised |-> exception, returned |-> None]

Returned(cfg, value) == [config |-> cfg, raised |-> "", returned |-> Some(value)]

Path(v) == [path |-> IF v = "" THEN "." ELSE v]

\* a load that stores a configuration before it looks for the file
load_assigns_before_exists_check(cfg) ==
    IF ~cfg.file.exists
    THEN Raised([cfg EXCEPT !._config = ValidFile.content], "ConfigNotFoundError")
    ELSE IF ~cfg.file.yaml_ok
    THEN Raised(cfg, "InvalidConfigError")
    ELSE LET loaded == [cfg EXCEPT !._config = cfg.file.content]
         IN  IF not_config(loaded._config) \/ ~validate(loaded._config)
             THEN Raised(loaded, "InvalidConfigError")
             ELSE Returned(loaded, CHOOSE d \in loaded._config : TRUE)

\* Config.load
load(cfg) ==
    IF ~cfg.file.exists
    THEN Raised(cfg, "ConfigNotFoundError")
    ELSE IF ~cfg.file.yaml_ok
    THEN Raised(cfg, "InvalidConfigError")
    ELSE LET loaded == [cfg EXCEPT !._config = cfg.file.content]
         IN  IF not_config(loaded._config) \/ ~validate(loaded._config)
             THEN Raised(loaded, "InvalidConfigError")
             ELSE Returned(loaded, CHOOSE d \in loaded._config : TRUE)

\* `if not self._config: self.load()` at the head of every getter
load_if_needed(cfg) ==
    IF not_config(cfg._config) THEN load(cfg) ELSE Returned(cfg, <<>>)

\* Config.get_source_folder
get_source_folder(cfg) ==
    LET l == load_if_needed(cfg)
    IN  IF l.raised # ""
        THEN l
        ELSE LET d == CHOOSE d \in l.config._config : TRUE
             IN  IF "source_folder" \notin DOMAIN d \/ d["source_folder"] = "nowhere"
                 THEN Raised(l.config, "InvalidConfigError")
                 ELSE Returned(l.config, Path(d["source_folder"]))

\* Config.get_target_folder
get_target_folder(cfg) ==
    LET l == load_if_needed(cfg)
    IN  IF l.raised # ""
        THEN l
        ELSE LET d == CHOOSE d \in l.config._config : TRUE
             IN  IF "target_albums_folder" \notin DOMAIN d
                 THEN Raised(l.config, "InvalidConfigError")
                 ELSE Returned(l.config, Path(d["target_albums_folder"]))
\* nothing exists yet under the target folder and the log folder
\* root: the target folder, the log folder and the files directly in them;
\* dirs: the album folders; files: the files inside album folders
EmptyFs == [root |-> {}, dirs |-> {}, files |-> {}]

\* no other PatternMatcher is in use
NoCall ==
    [album_specs |-> <<>>, photos |-> <<>>, mpc |-> "none", idx |-> 0,
     matched |-> <<>>, unmatched |-> <<>>, match_stats |-> <<>>]

\* keyword_matches with the literal keyword compared as written (no .lower())
keyword_matches_case_sensitive(keyword, text_lower) ==
    IF "*" \in Range(keyword)
    THEN re_search(<<"^">> \o replace_star(keyword), text_lower)
    ELSE str_in(keyword, text_lower)

\* one turn of the keyword loop of match_filename / match_folder
keyword_matches(keyword, text_lower) ==
    IF "*" \in Range(keyword)
    THEN re_search(<<"^">> \o replace_star(keyword), text_lower)
    ELSE str_in(lower(keyword), text_lower)

match_filename(photo, keywords) ==
    LET filename_lower == lower(photo.filename)
    IN  \E k \in DOMAIN keywords : keyword_matches(keywords[k], filename_lower)

match_folder(photo, keywords) ==
    LET folder_lower == lower(photo.folder_name)
    IN  \E k \in DOMAIN keywords : keyword_matches(keywords[k], folder_lower)

dt_year(d) == d \div 12
dt_month(d) == (d % 12) + 1
datetime(year, month) == year * 12 + (month - 1)

\* match_date without the `if not photo_date` test turned into a refusal: a
\* photo without any date passes every filter
match_date_missing_date_passes(photo, date_filter) ==
    LET photo_date == IF TruthyObj(photo.exif_date) THEN photo.exif_date
                      ELSE photo.file_created
    IN  IF ~TruthyObj(photo_date) THEN TRUE
        ELSE LET d == TheValue(photo_date)
             IN  /\ TruthyInt(date_filter.year) => dt_year(d) = TheValue(date_filter.year)
                 /\ TruthyInt(date_filter.month) => dt_month(d) = TheValue(date_filter.month)
                 /\ TruthyObj(date_filter.start_date) => d >= TheValue(date_filter.start_date)
                 /\ TruthyObj(date_filter.end_date) => d <= TheValue(date_filter.end_date)

match_date(photo, date_filter) ==
    LET photo_date == IF TruthyObj(photo.exif_date) THEN photo.exif_date
                      ELSE photo.file_created
    IN  IF ~TruthyObj(photo_date) THEN FALSE
        ELSE LET d == TheValue(photo_date)
             IN  IF TruthyInt(date_filter.year) /\ dt_year(d) # TheValue(date_filter.year)
                 THEN FALSE
                 ELSE IF TruthyInt(date_filter.month)
                         /\ dt_month(d) # TheValue(date_filter.month)
                 THEN FALSE
                 ELSE IF TruthyObj(date_filter.start_date)
                         /\ d < TheValue(date_filter.start_date)
                 THEN FALSE
                 ELSE IF TruthyObj(date_filter.end_date)
                         /\ d > TheValue(date_filter.end_date)
                 THEN FALSE
                 ELSE TRUE

\* _matches_spec: the keyword_match it computes first
keyword_match(photo, spec) ==
    match_filename(photo, spec.keywords) \/ match_folder(photo, spec.keywords)

\* _matches_spec requiring the date to match too when a filter is present
matches_spec_and_date(photo, spec, h) ==
    IF spec.date_filter # 0
    THEN keyword_match(photo, spec) /\ match_date(photo, h[spec.date_filter])
    ELSE keyword_match(photo, spec)

\* _matches_spec; h is the heap the spec's date_filter points into.  A
\* DateFilter object is always true, so `if spec.date_filter` asks for not None
matches_spec(photo, spec, h) ==
    IF spec.date_filter # 0
    THEN LET date_match == match_date(photo, h[spec.date_filter])
         IN  IF keyword_match(photo, spec) /\ date_match THEN TRUE
             ELSE IF keyword_match(photo, spec) THEN TRUE
             ELSE FALSE
    ELSE keyword_match(photo, spec)

\* the inner for loop of match: the name of the first matching spec, or None
RECURSIVE first_match(_, _, _, _)
first_match(photo, specs, k, h) ==
    IF k > Len(specs) THEN None
    ELSE IF matches_spec(photo, specs[k], h) THEN Some(specs[k].name)
    ELSE first_match(photo, specs, k + 1, h)

\* the keyword loop of match_filename / match_folder raises: from keyword k
\* on, a wildcard keyword whose pattern does not compile is reached before
\* any keyword matches
RECURSIVE keywords_raise(_, _, _)
keywords_raise(keywords, k, text_lower) ==
    IF k > Len(keywords) THEN FALSE
    ELSE IF "*" \in Range(keywords[k])
            /\ re_error(<<"^">> \o replace_star(keywords[k]))
    THEN TRUE
    ELSE IF keyword_matches(keywords[k], text_lower) THEN FALSE
    ELSE keywords_raise(keywords, k + 1, text_lower)

\* _matches_spec raises: match_filename does, or it returns False and
\* match_folder does
matches_spec_raises(photo, spec) ==
    \/ keywords_raise(spec.keywords, 1, lower(photo.filename))
    \/ /\ ~match_filename(photo, spec.keywords)
       /\ keywords_raise(spec.keywords, 1, lower(photo.folder_name))

\* the inner for loop of match raises before it finds a matching spec
RECURSIVE first_match_raises(_, _, _, _)
first_match_raises(photo, specs, k, h) ==
    IF k > Len(specs) THEN FALSE
    ELSE IF matches_spec_raises(photo, specs[k]) THEN TRUE
    ELSE IF matches_spec(photo, specs[k], h) THEN FALSE
    ELSE first_match_raises(photo, specs, k + 1, h)

\* the dict comprehension that creates the buckets
empty_buckets(specs) == [n \in {specs[k].name : k \in DOMAIN specs} |-> <<>>]

\* the loop body without the break: the photo goes to every matching bucket
place_photo_every_match(photo, specs, h, m, u) ==
    LET hits == {specs[k].name : k \in {j \in DOMAIN specs : matches_spec(photo, specs[j], h)}}
    IN  IF hits # {}
        THEN <<[n \in DOMAIN m |-> IF n \in hits THEN Append(m[n], photo) ELSE m[n]], u>>
        ELSE <<m, Append(u, photo)>>

\* the loop body putting the photo at the front of its list instead of the end
place_photo_in_front(photo, specs, h, m, u) ==
    LET matched_album == first_match(photo, specs, 1, h)
    IN  IF TruthyStr(matched_album)
        THEN <<[m EXCEPT ![TheValue(matched_album)] = <<photo>> \o @], u>>
        ELSE <<m, <<photo>> \o u>>

\* the body of the for loop over photos: (matched, unmatched) after one photo
place_photo(photo, specs, h, m, u) ==
    LET matched_album == first_match(photo, specs, 1, h)
    IN  IF TruthyStr(matched_album)
        THEN <<[m EXCEPT ![TheValue(matched_album)] = Append(@, photo)], u>>
        ELSE <<m, Append(u, photo)>>

\* the entry of match with the buckets kept on the matcher between calls
MatchBegin_keeps_buckets ==
    /\ pc = "match" /\ mpc = "idle"
    /\ matched' = IF earlier = None THEN empty_buckets(album_specs) ELSE matched
    /\ unmatched' = <<>>
    /\ idx' = 1
    /\ mpc' = "loop"
    /\ steps' = Append(steps, "match")
    /\ UNCHANGED <<pc, photos, match_stats, outcome>>
    /\ UNCHANGED vars_run /\ UNCHANGED vars_env /\ UNCHANGED vars_calls /\ UNCHANGED vars_parse

MatchBegin ==
    /\ pc = "match" /\ mpc = "idle"
    /\ matched' = empty_buckets(album_specs)
    /\ unmatched' = <<>>
    /\ idx' = 1
    /\ mpc' = "loop"
    /\ steps' = Append(steps, "match")
    /\ UNCHANGED <<pc, photos, match_stats, outcome>>
    /\ UNCHANGED vars_run /\ UNCHANGED vars_env /\ UNCHANGED vars_calls /\ UNCHANGED vars_parse

\* re.error leaves match through the photo loop: match has no try/except
MatchRaise ==
    /\ pc = "match" /\ mpc = "loop" /\ idx <= Len(photos)
    /\ first_match_raises(photos[idx], album_specs, 1, heap)
    /\ mpc' = "raised"
    /\ UNCHANGED <<pc, photos, idx, matched, unmatched, match_stats, steps, outcome>>
    /\ UNCHANGED vars_run /\ UNCHANGED vars_env /\ UNCHANGED vars_calls /\ UNCHANGED vars_parse

\* the photo loop taking each photo off the caller's list as it goes
MatchPhoto_consumes_photos ==
    /\ pc = "match" /\ mpc = "loop" /\ idx <= Len(photos)
    /\ ~first_match_raises(photos[idx], album_specs, 1, heap)
    /\ LET r == place_photo(photos[idx], album_specs, heap, matched, unmatched)
       IN  matched' = r[1] /\ unmatched' = r[2]
    /\ photos' = Tail(photos)
    /\ UNCHANGED <<pc, idx, mpc, match_stats, steps, outcome>>
    /\ UNCHANGED vars_run /\ UNCHANGED vars_env /\ UNCHANGED vars_calls /\ UNCHANGED vars_parse

MatchPhoto ==
    /\ pc = "match" /\ mpc = "loop" /\ idx <= Len(photos)
    /\ ~first_match_raises(photos[idx], album_specs, 1, heap)
    /\ LET r == place_photo(photos[idx], album_specs, heap, matched, unmatched)
       IN  matched' = r[1] /\ unmatched' = r[2]
    /\ idx' = idx + 1
    /\ UNCHANGED <<pc, photos, mpc, match_stats, steps, outcome>>
    /\ UNCHANGED vars_run /\ UNCHANGED vars_env /\ UNCHANGED vars_calls /\ UNCHANGED vars_parse

\* the end of match with the counts taken when the buckets were created
MatchFinish_counts_at_creation ==
    /\ pc = "match" /\ mpc = "loop" /\ idx > Len(photos)
    /\ match_stats' = [n \in DOMAIN matched |-> 0]
    /\ mpc' = "done"
    /\ UNCHANGED <<pc, photos, idx, matched, unmatched, steps, outcome>>
    /\ UNCHANGED vars_run /\ UNCHANGED vars_env /\ UNCHANGED vars_calls /\ UNCHANGED vars_parse

MatchFinish ==
    /\ pc = "match" /\ mpc = "loop" /\ idx > Len(photos)
    /\ match_stats' = [n \in DOMAIN matched |-> Len(matched[n])]
    /\ mpc' = "done"
    /\ UNCHANGED <<pc, photos, idx, matched, unmatched, steps, outcome>>
    /\ UNCHANGED vars_run /\ UNCHANGED vars_env /\ UNCHANGED vars_calls /\ UNCHANGED vars_parse

\* the caller keeps the MatchResult and calls match again on the same matcher
\* with the same photos; the locals of the new call are created by MatchBegin
MatchAgain ==
    /\ pc = "match" /\ mpc = "done" /\ earlier = None
    /\ earlier' = Some([matched |-> matched, unmatched |-> unmatched,
                         match_stats |-> match_stats])
    /\ mpc' = "idle" /\ idx' = 0
    /\ UNCHANGED <<pc, photos, matched, unmatched, match_stats, steps, outcome, other>>
    /\ UNCHANGED vars_run /\ UNCHANGED vars_env /\ UNCHANGED vars_parse

\* match of the other PatternMatcher: the same code on its own locals
OtherBegin ==
    /\ other.mpc = "idle"
    /\ other' = [other EXCEPT !.matched = empty_buckets(other.album_specs),
                              !.unmatched = <<>>, !.idx = 1, !.mpc = "loop"]
    /\ UNCHANGED <<pc, steps, outcome, earlier>>
    /\ UNCHANGED vars_run /\ UNCHANGED vars_env /\ UNCHANGED vars_parse /\ UNCHANGED vars_match

OtherRaise ==
    /\ other.mpc = "loop" /\ other.idx <= Len(other.photos)
    /\ first_match_raises(other.photos[other.idx], other.album_specs, 1, heap)
    /\ other' = [other EXCEPT !.mpc = "raised"]
    /\ UNCHANGED <<pc, steps, outcome, earlier>>
    /\ UNCHANGED vars_run /\ UNCHANGED vars_env /\ UNCHANGED vars_parse /\ UNCHANGED vars_match

OtherPhoto ==
    /\ other.mpc = "loop" /\ other.idx <= Len(other.photos)
    /\ ~first_match_raises(other.photos[other.idx], other.album_specs, 1, heap)
    /\ LET r == place_photo(other.photos[other.idx], other.album_specs, heap,
                            other.matched, other.unmatched)
       IN  other' = [other EXCEPT !.matched = r[1], !.unmatched = r[2],
                                  !.idx = other.idx + 1]
    /\ UNCHANGED <<pc, steps, outcome, earlier>>
    /\ UNCHANGED vars_run /\ UNCHANGED vars_env /\ UNCHANGED vars_parse /\ UNCHANGED vars_match

OtherFinish ==
    /\ other.mpc = "loop" /\ other.idx > Len(other.photos)
    /\ other' = [other EXCEPT
                    !.match_stats = [n \in DOMAIN other.matched |-> Len(other.matched[n])],
                    !.mpc = "done"]
    /\ UNCHANGED <<pc, steps, outcome, earlier>>
    /\ UNCHANGED vars_run /\ UNCHANGED vars_env /\ UNCHANGED vars_parse /\ UNCHANGED vars_match


(***************************************************************************)
(* PromptParser                                                            *)
(***************************************************************************)
\* the dataclass DateFilter; the parser and the app set year and month only
NoFilter == [year |-> None, month |-> None, start_date |-> None, end_date |-> None]
DateFilter(year, month) ==
    [year |-> year, month |-> month, start_date |-> None, end_date |-> None]

\* MONTH_NAMES, in the order of the dict (the order of the alternation)
MONTH_NAMES ==
    <<<<<<"j","a","n","u","a","r","y">>, 1>>,
      <<<<"j","a","n">>, 1>>,
      <<<<"f","e","b","r","u","a","r","y">>, 2>>,
      <<<<"f","e","b">>, 2>>,
      <<<<"m","a","r","c","h">>, 3>>,
      <<<<"m","a","r">>, 3>>,
      <<<<"a","p","r","i","l">>, 4>>,
      <<<<"a","p","r">>, 4>>,
      <<<<"m","a","y">>, 5>>,
      <<<<"j","u","n","e">>, 6>>,
      <<<<"j","u","n">>, 6>>,
      <<<<"j","u","l","y">>, 7>>,
      <<<<"j","u","l">>, 7>>,
      <<<<"a","u","g","u","s","t">>, 8>>,
      <<<<"a","u","g">>, 8>>,
      <<<<"s","e","p","t","e","m","b","e","r">>, 9>>,
      <<<<"s","e","p">>, 9>>,
      <<<<"s","e","p","t">>, 9>>,
      <<<<"o","c","t","o","b","e","r">>, 10>>,
      <<<<"o","c","t">>, 10>>,
      <<<<"n","o","v","e","m","b","e","r">>, 11>>,
      <<<<"n","o","v">>, 11>>,
      <<<<"d","e","c","e","m","b","e","r">>, 12>>,
      <<<<"d","e","c">>, 12>>>>

\* STOP_WORDS
STOP_WORDS ==
    {<<"a">>, <<"a","n">>, <<"a","n","d">>, <<"o","r">>, <<"t","h","e">>, 
     <<"i","n">>, <<"o","n">>, <<"a","t">>, <<"t","o">>, <<"f","o","r">>, 
     <<"o","f">>, <<"w","i","t","h">>, <<"b","y">>, <<"f","r","o","m">>, 
     <<"c","r","e","a","t","e">>, <<"a","l","b","u","m","s">>, 
     <<"a","l","b","u","m">>, <<"p","h","o","t","o","s">>, 
     <<"o","r","g","a","n","i","z","e">>, <<"s","o","r","t">>, 
     <<"g","r","o","u","p">>}

\* the regex classes \w, \d and \s on the characters of the model
WordChars == LowerSet \cup UpperSet \cup DigitSet \cup {"_"}
IsWordChar(c) == c \in WordChars
IsDigit(c) == c \in DigitSet
IsSpace(c) == c = " "
digit_value(c) == DigitValue[c]

\* the literal lit occurs in text at position k
starts_with_at(text, k, lit) ==
    /\ k + Len(lit) - 1 <= Len(text)
    /\ SubSeq(text, k, k + Len(lit) - 1) = lit
\* \b holds just before position k of text (k = Len(text) + 1: at the end)
boundary_at(text, k) ==
    (k > 1 /\ IsWordChar(text[k - 1])) # (k <= Len(text) /\ IsWordChar(text[k]))
\* \d{n} matches at position k
digits_at(text, k, n) ==
    /\ k + n - 1 <= Len(text)
    /\ \A j \in k..(k + n - 1) : IsDigit(text[j])
\* int() of the n digits at position k
RECURSIVE int_at(_, _, _)
int_at(text, k, n) ==
    IF n = 0 THEN 0
    ELSE 10 * int_at(text, k, n - 1) + digit_value(text[k + n - 1])
\* the position after the whitespace run that starts at k (k itself if none)
RECURSIVE skip_spaces(_, _)
skip_spaces(text, k) ==
    IF k <= Len(text) /\ IsSpace(text[k]) THEN skip_spaces(text, k + 1) ELSE k

\* re.sub(alternation of the literals alts, '', text) from position k on;
\* with bounded, the alternation stands between two \b
RECURSIVE sub_literals(_, _, _, _)
sub_literals(text, k, alts, bounded) ==
    IF k > Len(text) THEN <<>>
    ELSE LET hits == {a \in DOMAIN alts :
                         /\ starts_with_at(text, k, alts[a])
                         /\ bounded => /\ boundary_at(text, k)
                                       /\ boundary_at(text, k + Len(alts[a]))}
         IN  IF hits # {}
             THEN LET a == CHOOSE a \in hits : \A b \in hits : a <= b
                  IN  sub_literals(text, k + Len(alts[a]), alts, bounded)
             ELSE <<text[k]>> \o sub_literals(text, k + 1, alts, bounded)

\* re.sub(r'\b\d{4}\b', '', text) from position k on
RECURSIVE sub_years(_, _)
sub_years(text, k) ==
    IF k > Len(text) THEN <<>>
    ELSE IF boundary_at(text, k) /\ digits_at(text, k, 4) /\ boundary_at(text, k + 4)
    THEN sub_years(text, k + 4)
    ELSE <<text[k]>> \o sub_years(text, k + 1)

\* re.sub(r'\d{4}-\d{2}', '', text) from position k on
RECURSIVE sub_year_months(_, _)
sub_year_months(text, k) ==
    IF k > Len(text) THEN <<>>
    ELSE IF digits_at(text, k, 4) /\ starts_with_at(text, k + 4, <<"-">>)
            /\ digits_at(text, k + 5, 2)
    THEN sub_year_months(text, k + 7)
    ELSE <<text[k]>> \o sub_year_months(text, k + 1)

\* re.sub(r'\s+WORD\s+', ',', text) from position k on
RECURSIVE sub_conjunction(_, _, _)
sub_conjunction(text, k, word) ==
    IF k > Len(text) THEN <<>>
    ELSE LET w == skip_spaces(text, k)
             e == skip_spaces(text, w + Len(word))
         IN  IF w > k /\ starts_with_at(text, w, word) /\ e > w + Len(word)
             THEN <<",">> \o sub_conjunction(text, e, word)
             ELSE <<text[k]>> \o sub_conjunction(text, k + 1, word)

\* text.split(sep) for a one-character sep: cur is the part being read
RECURSIVE split_on(_, _, _, _)
split_on(text, k, sep, cur) ==
    IF k > Len(text) THEN <<cur>>
    ELSE IF text[k] = sep THEN <<cur>> \o split_on(text, k + 1, sep, <<>>)
    ELSE split_on(text, k + 1, sep, Append(cur, text[k]))

\* str.split(): the maximal runs of non-whitespace
RECURSIVE split_words(_, _, _)
split_words(text, k, cur) ==
    IF k > Len(text) THEN (IF cur = <<>> THEN <<>> ELSE <<cur>>)
    ELSE IF IsSpace(text[k])
    THEN (IF cur = <<>> THEN <<>> ELSE <<cur>>) \o split_words(text, k + 1, <<>>)
    ELSE split_words(text, k + 1, Append(cur, text[k]))

\* str.strip()
RECURSIVE lstrip(_)
lstrip(text) == IF text # <<>> /\ IsSpace(Head(text)) THEN lstrip(Tail(text)) ELSE text
RECURSIVE rstrip(_)
rstrip(text) ==
    IF text # <<>> /\ IsSpace(text[Len(text)])
    THEN rstrip(SubSeq(text, 1, Len(text) - 1)) ELSE text
strip(text) == rstrip(lstrip(text))

\* str.capitalize()
capitalize(word) ==
    [k \in 1..Len(word) |-> IF k = 1 THEN upper_char(word[k]) ELSE lower_char(word[k])]

\* ' '.join(words)
RECURSIVE join_words(_)
join_words(words) ==
    IF words = <<>> THEN <<>>
    ELSE IF Len(words) = 1 THEN words[1]
    ELSE words[1] \o <<" ">> \o join_words(Tail(words))

\* the loop that turns the parts into album names
RECURSIVE names_of_parts(_)
names_of_parts(parts) ==
    IF parts = <<>> THEN <<>>
    ELSE LET part == Head(parts)
             words == split_words(part, 1, <<>>)
             name == join_words([k \in DOMAIN words |-> capitalize(words[k])])
         IN  (IF part # <<>> /\ name # <<>> THEN <<name>> ELSE <<>>)
             \o names_of_parts(Tail(parts))

\* extract_album_names: the text after the lead-in phrases are removed
remove_phrases(text) ==
    LET t1 == sub_literals(text, 1, <<<<"c","r","e","a","t","e"," ","a","l","b","u","m","s"," ","f","o","r">>, <<"c","r","e","a","t","e"," ","a","l","b","u","m"," ","f","o","r">>>>, FALSE)
        t2 == sub_literals(t1, 1, <<<<"o","r","g","a","n","i","z","e"," ","p","h","o","t","o","s"," ","i","n","t","o">>, <<"o","r","g","a","n","i","z","e"," ","p","h","o","t","o"," ","i","n","t","o">>,
                                    <<"o","r","g","a","n","i","z","e"," ","i","n","t","o">>>>, FALSE)
    IN  sub_literals(t2, 1, <<<<"s","o","r","t"," ","p","h","o","t","o","s"," ","b","y">>, <<"s","o","r","t"," ","p","h","o","t","o"," ","b","y">>, <<"s","o","r","t"," ","b","y">>>>, FALSE)

\* extract_album_names: the text after the date expressions are removed, in
\* the order of the code: years, full month names, abbreviations, YYYY-MM
remove_dates(text) ==
    LET t1 == sub_years(text, 1)
        t2 == sub_literals(t1, 1,
                  <<<<"j","a","n","u","a","r","y">>, <<"f","e","b","r","u","a","r","y">>, 
                    <<"m","a","r","c","h">>, <<"a","p","r","i","l">>, <<"m","a","y">>, 
                    <<"j","u","n","e">>, <<"j","u","l","y">>, <<"a","u","g","u","s","t">>, 
                    <<"s","e","p","t","e","m","b","e","r">>, 
                    <<"o","c","t","o","b","e","r">>, <<"n","o","v","e","m","b","e","r">>, 
                    <<"d","e","c","e","m","b","e","r">>>>, TRUE)
        t3 == sub_literals(t2, 1,
                  <<<<"j","a","n">>, <<"f","e","b">>, <<"m","a","r">>, <<"a","p","r">>, 
                    <<"m","a","y">>, <<"j","u","n">>, <<"j","u","l">>, <<"a","u","g">>, 
                    <<"s","e","p">>, <<"s","e","p","t">>, <<"o","c","t">>, <<"n","o","v">>, 
                    <<"d","e","c">>>>, TRUE)
    IN  sub_year_months(t3, 1)

extract_album_names(p) ==
    LET text == remove_dates(remove_phrases(lower(p)))
        t1 == sub_conjunction(text, 1, <<"a","n","d">>)
        t2 == sub_conjunction(t1, 1, <<"o","r">>)
        raw == split_on(t2, 1, ",", <<>>)
        parts == [k \in DOMAIN raw |-> strip(raw[k])]
    IN  names_of_parts(parts)

\* pattern1 of extract_dates, r'\b(<month names>)\s+(\d{4})\b', scanned from
\* position k: the DateFilter values of the matches, left to right
RECURSIVE find_month_years(_, _)
find_month_years(text, k) ==
    IF k > Len(text) THEN <<>>
    ELSE LET hits == IF ~boundary_at(text, k) THEN {}
                     ELSE {a \in DOMAIN MONTH_NAMES :
                              LET d == skip_spaces(text, k + Len(MONTH_NAMES[a][1]))
                              IN  /\ starts_with_at(text, k, MONTH_NAMES[a][1])
                                  /\ d > k + Len(MONTH_NAMES[a][1])
                                  /\ digits_at(text, d, 4)
                                  /\ boundary_at(text, d + 4)}
         IN  IF hits # {}
             THEN LET a == CHOOSE a \in hits : \A b \in hits : a <= b
                      d == skip_spaces(text, k + Len(MONTH_NAMES[a][1]))
                  IN  <<DateFilter(Some(int_at(text, d, 4)), Some(MONTH_NAMES[a][2]))>>
                      \o find_month_years(text, d + 4)
             ELSE find_month_years(text, k + 1)

\* pattern2, r'\b(\d{4})-(\d{2})\b': a match with a month outside 1..12 is
\* consumed and yields nothing
RECURSIVE find_year_months(_, _)
find_year_months(text, k) ==
    IF k > Len(text) THEN <<>>
    ELSE IF /\ boundary_at(text, k) /\ digits_at(text, k, 4)
            /\ starts_with_at(text, k + 4, <<"-">>)
            /\ digits_at(text, k + 5, 2) /\ boundary_at(text, k + 7)
    THEN LET year == int_at(text, k, 4)
             month == int_at(text, k + 5, 2)
         IN  (IF 1 <= month /\ month <= 12
              THEN <<DateFilter(Some(year), Some(month))>> ELSE <<>>)
             \o find_year_months(text, k + 7)
    ELSE find_year_months(text, k + 1)

\* pattern3, r'\b(\d{4})\b', kept when the year is in 2000..2100
RECURSIVE find_years(_, _)
find_years(text, k) ==
    IF k > Len(text) THEN <<>>
    ELSE IF boundary_at(text, k) /\ digits_at(text, k, 4) /\ boundary_at(text, k + 4)
    THEN LET year == int_at(text, k, 4)
         IN  (IF 2000 <= year /\ year <= 2100
              THEN <<DateFilter(Some(year), None)>> ELSE <<>>)
             \o find_years(text, k + 4)
    ELSE find_years(text, k + 1)

\* extract_dates without the `if not date_filters` guard of pattern 3
extract_dates_years_too(p) ==
    LET text == lower(p)
    IN  find_month_years(text, 1) \o find_year_months(text, 1) \o find_years(text, 1)

\* extract_dates: the DateFilter objects it creates, in list order
extract_dates(p) ==
    LET text == lower(p)
        date_filters == find_month_years(text, 1) \o find_year_months(text, 1)
    IN  IF date_filters = <<>> THEN find_years(text, 1) ELSE date_filters

\* [w for w in words if w not in self.STOP_WORDS]
RECURSIVE without_stop_words(_)
without_stop_words(words) ==
    IF words = <<>> THEN <<>>
    ELSE (IF Head(words) \in STOP_WORDS THEN <<>> ELSE <<Head(words)>>)
         \o without_stop_words(Tail(words))

\* extract_keywords putting the full name behind the words instead of in front
extract_keywords_name_last(album_name) ==
    LET words == split_words(lower(album_name), 1, <<>>)
        keywords == without_stop_words(words)
    IN  IF lower(album_name) \notin Range(keywords)
        THEN keywords \o <<lower(album_name)>>
        ELSE keywords

extract_keywords(album_name) ==
    LET words == split_words(lower(album_name), 1, <<>>)
        keywords == without_stop_words(words)
    IN  IF lower(album_name) \notin Range(keywords)
        THEN <<lower(album_name)>> \o keywords
        ELSE keywords

\* parse binding the k-th date to the k-th album instead of dates[0] to all
parse_specs_per_album(p, first_date) ==
    LET album_names == extract_album_names(p)
        n == Len(extract_dates(p))
    IN  [k \in DOMAIN album_names |->
            [name |-> album_names[k],
             keywords |-> extract_keywords(album_names[k]),
             date_filter |-> IF first_date = 0 THEN 0 ELSE first_date + ((k - 1) % n),
             original_prompt |-> p]]

\* parse: the specs built from the names; first_date is the heap index of
\* dates[0], or 0 when dates is empty
parse_specs(p, first_date) ==
    LET album_names == extract_album_names(p)
    IN  [k \in DOMAIN album_names |->
            [name |-> album_names[k],
             keywords |-> extract_keywords(album_names[k]),
             date_filter |-> first_date,
             original_prompt |-> p]]

(***************************************************************************)
(* Inputs of the direct-call specifications                                *)
(***************************************************************************)
BoundedSeqs(S, n) == UNION {[1..k -> S] : k \in 0..n}

\* the DateFilter objects the direct-call spec lists point to:
\* 1 is DateFilter(year=2024), 2 is DateFilter(year=2024, month=3)
MatchHeap == <<DateFilter(Some(2024), None), DateFilter(Some(2024), Some(3))>>

AlbumSpec(name, keywords, date_filter) ==
    [name |-> name, keywords |-> keywords, date_filter |-> date_filter,
     original_prompt |-> <<>>]

PhotoMetadata(path, filename, folder_name, file_created, exif_date) ==
    [path |-> path, filename |-> filename, folder_name |-> folder_name,
     file_created |-> file_created, exif_date |-> exif_date]

SpecUniverse ==
    { AlbumSpec(<<"F","e","s","t">>, <<<<"f","e","s","t">>>>, 0),
      AlbumSpec(<<"N","c","c">>, <<<<"N","C","C","*">>>>, 1),
      AlbumSpec(<<>>, <<<<"F","E","S","T">>>>, 0),
      AlbumSpec(<<"F","e","s","t">>, <<<<"c","o","l"," ","f","e","s","t">>, <<"c","o","l">>>>, 2),
      AlbumSpec(<<"T","r","i","p">>, <<<<"t","r","i","p">>>>, 1) }

PhotoUniverse ==
    { PhotoMetadata("p1", <<"F","e","s","t","1">>, <<"c","o","l">>, Some(datetime(2024, 3)), None),
      PhotoMetadata("p2", <<"n","c","c","_","f","e","s","t">>, <<"x">>, Some(datetime(2024, 3)), Some(datetime(2023, 1))),
      PhotoMetadata("p3", <<"m","y","_","n","c","c">>, <<"T","r","i","p">>, Some(datetime(2024, 3)), None),
      PhotoMetadata("p4", <<"i","m","g">>, <<"d","c","i","m">>, Some(datetime(2024, 3)), None),
      PhotoMetadata("p5", <<"t","r","i","p","2">>, <<"d","c","i","m">>, None, None) }

\* direct calls of PatternMatcher(album_specs).match(photos)
InitLists ==
    /\ frontend = "api" /\ pc = "match" /\ prompt = <<>>
    /\ dry_run = TRUE /\ month_filter = None /\ year_filter = None
    /\ heap = MatchHeap /\ dates = <<>>
    /\ album_specs \in BoundedSeqs(SpecUniverse, MaxSpecs)
    /\ photos \in BoundedSeqs(PhotoUniverse, MaxPhotos)
    /\ mpc = "idle" /\ idx = 0
    /\ matched = <<>> /\ unmatched = <<>> /\ match_stats = <<>>
    /\ steps = <<>> /\ outcome = "running"
    /\ backup_mode = FALSE /\ config = NoConfig
    /\ fs = EmptyFs /\ source = {} /\ albums = <<>> /\ placed = <<>>
    /\ earlier = None /\ other = NoCall


\* one keyword against one candidate string, held in the filename or in the
\* folder name of the only photo
KwAlphabet == {"a", "B", ".", "*"}
CandAlphabet == {"a", "b", "B"}

InitWild ==
    /\ frontend = "api" /\ pc = "match" /\ prompt = <<>>
    /\ dry_run = TRUE /\ month_filter = None /\ year_filter = None
    /\ heap = MatchHeap /\ dates = <<>>
    /\ \E keyword \in BoundedSeqs(KwAlphabet, MaxKwLen) :
          album_specs = <<AlbumSpec(<<"K">>, <<keyword>>, 0)>>
    /\ \E cand \in BoundedSeqs(CandAlphabet, MaxCandLen) :
          \/ photos = <<PhotoMetadata("p1", cand, <<"#">>, None, None)>>
          \/ photos = <<PhotoMetadata("p1", <<"#">>, cand, None, None)>>
    /\ mpc = "idle" /\ idx = 0
    /\ matched = <<>> /\ unmatched = <<>> /\ match_stats = <<>>
    /\ steps = <<>> /\ outcome = "running"
    /\ backup_mode = FALSE /\ config = NoConfig
    /\ fs = EmptyFs /\ source = {} /\ albums = <<>> /\ placed = <<>>
    /\ earlier = None /\ other = NoCall

\* wildcard keywords with a stray parenthesis or a repeated "*", alone or
\* behind a keyword that may match first
MalformedKeywords == {<<"(","*">>, <<"t","r","i","p","(","*">>, <<"*","*">>, <<"*","(">>}
InitMalformed ==
    /\ frontend = "api" /\ pc = "match" /\ prompt = <<>>
    /\ dry_run = TRUE /\ month_filter = None /\ year_filter = None
    /\ heap = MatchHeap /\ dates = <<>>
    /\ \E keyword \in MalformedKeywords :
          \/ album_specs = <<AlbumSpec(<<"K">>, <<keyword>>, 0)>>
          \/ album_specs = <<AlbumSpec(<<"K">>, <<<<"t","r","i","p">>, keyword>>, 0)>>
    /\ \E photo \in PhotoUniverse : photos = <<photo>>
    /\ mpc = "idle" /\ idx = 0
    /\ matched = <<>> /\ unmatched = <<>> /\ match_stats = <<>>
    /\ steps = <<>> /\ outcome = "running"
    /\ backup_mode = FALSE /\ config = NoConfig
    /\ fs = EmptyFs /\ source = {} /\ albums = <<>> /\ placed = <<>>
    /\ earlier = None /\ other = NoCall

InitMatch == InitLists \/ InitWild \/ InitMalformed

NextMatch == MatchBegin \/ MatchPhoto \/ MatchRaise \/ MatchFinish

SpecMatch == InitMatch /\ [][NextMatch]_vars

\* two PatternMatchers over disjoint spec lists and photo lists: this one is
\* called twice with the same photos, the other one once, and the steps of
\* the calls interleave photo by photo in every order
CallSpecLists ==
    { <<AlbumSpec(<<"F","e","s","t">>, <<<<"f","e","s","t">>>>, 0),
        AlbumSpec(<<"T","r","i","p">>, <<<<"t","r","i","p">>>>, 1)>>,
      <<AlbumSpec(<<"T","r","i","p">>, <<<<"t","r","i","p">>>>, 1),
        AlbumSpec(<<"K">>, <<<<"(","*">>>>, 0)>> }
OtherSpecLists ==
    { <<AlbumSpec(<<"N","c","c">>, <<<<"N","C","C","*">>>>, 2)>>,
      <<AlbumSpec(<<"N","c","c">>, <<<<"n","c","c","_">>>>, 2),
        AlbumSpec(<<"J">>, <<<<"*","(">>>>, 0)>> }
CallPhotos == {ph \in PhotoUniverse : ph.path \in {"p1", "p5"}}
OtherPhotos == {ph \in PhotoUniverse : ph.path \in {"p2", "p3"}}

InitCalls ==
    /\ frontend = "api" /\ pc = "match" /\ prompt = <<>>
    /\ dry_run = TRUE /\ month_filter = None /\ year_filter = None
    /\ heap = MatchHeap /\ dates = <<>>
    /\ album_specs \in CallSpecLists
    /\ photos \in BoundedSeqs(CallPhotos, MaxPhotos)
    /\ mpc = "idle" /\ idx = 0
    /\ matched = <<>> /\ unmatched = <<>> /\ match_stats = <<>>
    /\ steps = <<>> /\ outcome = "running"
    /\ backup_mode = FALSE /\ config = NoConfig
    /\ fs = EmptyFs /\ source = {} /\ albums = <<>> /\ placed = <<>>
    /\ earlier = None
    /\ \E specs \in OtherSpecLists : \E phs \in BoundedSeqs(OtherPhotos, MaxPhotos) :
          other = [NoCall EXCEPT !.album_specs = specs, !.photos = phs, !.mpc = "idle"]

NextCalls ==
    \/ MatchBegin \/ MatchPhoto \/ MatchRaise \/ MatchFinish \/ MatchAgain
    \/ OtherBegin \/ OtherPhoto \/ OtherRaise \/ OtherFinish

SpecCalls == InitCalls /\ [][NextCalls]_vars


(***************************************************************************)
(* Direct calls of PromptParser().parse(prompt)                            *)
(***************************************************************************)
\* parse: extract_dates creates its DateFilter objects, and every spec gets
\* the first of them (or None)
ParseCall ==
    LET created == extract_dates(prompt)
        first_date == IF created # <<>> THEN Len(heap) + 1 ELSE 0
    IN  /\ heap' = heap \o created
        /\ dates' = [k \in DOMAIN created |-> Len(heap) + k]
        /\ album_specs' = parse_specs(prompt, first_date)

ApiParse ==
    /\ frontend = "api" /\ pc = "parse"
    /\ ParseCall
    /\ pc' = "parsed"
    /\ steps' = Append(steps, "parse")
    /\ UNCHANGED outcome
    /\ UNCHANGED vars_run /\ UNCHANGED vars_env /\ UNCHANGED vars_calls /\ UNCHANGED vars_match

\* the prompts given to parse: up to MaxTokens tokens joined by single spaces
LeadInTokens == {<<"S","o","r","t"," ","b","y">>}
\* bare years, a full and an abbreviated month name, a YYYY-MM token
DateTokens == {<<"M","a","r","c","h">>, <<"m","a","r">>, <<"2","0","2","4">>, <<"2","0","2","3">>, <<"1","9","9","9">>, <<"2","0","2","4","-","0","3">>}
\* album words and separators, and a YYYY-MM look-alike with month 13
NameTokens == {<<"f","e","s","t",","," ","t","r","i","p">>, <<"v","a","c">>, <<"a","n","d">>, <<"2","0","2","3","-","1","3">>}
PromptTokens == LeadInTokens \cup DateTokens \cup NameTokens
\* prompts of the documentation and of the tests, and prompts with a date or a
\* second conjunction between two album names
ExamplePrompts ==
    {<<"P","h","o","t","o","s"," ","f","r","o","m"," ","M","a","r","c","h"," ","2","0","2","4"," ","a","n","d"," ","a","l","s","o"," ","2","0","2","3">>,
     <<"C","r","e","a","t","e"," ","a","l","b","u","m","s"," ","f","o","r"," ","v","a","c","a","t","i","o","n",","," ","w","o","r","k",","," ","a","n","d"," ","f","a","m","i","l","y">>,
     <<"N","C","C"," ","E","v","e","n","t","s"," ","o","r"," ","t","h","e"," ","b","e","a","c","h"," ","t","r","i","p">>,
     <<"f","e","s","t"," ","a","n","d"," ","2","0","2","4"," ","a","n","d"," ","t","r","i","p">>,
     <<"c","a","t","s"," ","a","n","d"," ","o","r"," ","d","o","g","s">>}

JoinedPrompts(tokens) == {join_words(ts) : ts \in BoundedSeqs(tokens, MaxTokens)}

InitParse ==
    /\ frontend = "api" /\ pc = "parse"
    /\ dry_run = TRUE /\ month_filter = None /\ year_filter = None
    /\ prompt \in JoinedPrompts(PromptTokens) \cup ExamplePrompts
    /\ heap = <<>> /\ dates = <<>> /\ album_specs = <<>>
    /\ photos = <<>> /\ mpc = "idle" /\ idx = 0
    /\ matched = <<>> /\ unmatched = <<>> /\ match_stats = <<>>
    /\ steps = <<>> /\ outcome = "running"
    /\ backup_mode = FALSE /\ config = NoConfig
    /\ fs = EmptyFs /\ source = {} /\ albums = <<>> /\ placed = <<>>
    /\ earlier = None /\ other = NoCall

NextParse == ApiParse

SpecParse == InitParse /\ [][NextParse]_vars

(***************************************************************************)
(* Direct calls of Config: one Config object over a configuration file,    *)
(* and load and the getters called on it in any order.  steps logs each    *)
(* call with what it raised and returned.                                  *)
(***************************************************************************)
MaxConfigCalls == 3

Called(call, r) == [call |-> call, raised |-> r.raised, returned |-> r.returned]

ConfigLoad ==
    /\ frontend = "api" /\ pc = "config" /\ Len(steps) < MaxConfigCalls
    /\ LET r == load(config)
       IN  config' = r.config /\ steps' = Append(steps, Called("load", r))
    /\ UNCHANGED <<pc, outcome, fs, source, albums, placed>>
    /\ UNCHANGED vars_run /\ UNCHANGED vars_calls /\ UNCHANGED vars_parse /\ UNCHANGED vars_match

ConfigGetSourceFolder ==
    /\ frontend = "api" /\ pc = "config" /\ Len(steps) < MaxConfigCalls
    /\ LET r == get_source_folder(config)
       IN  config' = r.config /\ steps' = Append(steps, Called("get_source_folder", r))
    /\ UNCHANGED <<pc, outcome, fs, source, albums, placed>>
    /\ UNCHANGED vars_run /\ UNCHANGED vars_calls /\ UNCHANGED vars_parse /\ UNCHANGED vars_match

ConfigGetTargetFolder ==
    /\ frontend = "api" /\ pc = "config" /\ Len(steps) < MaxConfigCalls
    /\ LET r == get_target_folder(config)
       IN  config' = r.config /\ steps' = Append(steps, Called("get_target_folder", r))
    /\ UNCHANGED <<pc, outcome, fs, source, albums, placed>>
    /\ UNCHANGED vars_run /\ UNCHANGED vars_calls /\ UNCHANGED vars_parse /\ UNCHANGED vars_match

InitConfig ==
    /\ frontend = "api" /\ pc = "config"
    /\ dry_run = TRUE /\ month_filter = None /\ year_filter = None
    /\ prompt = <<>>
    /\ heap = <<>> /\ dates = <<>> /\ album_specs = <<>>
    /\ photos = <<>> /\ mpc = "idle" /\ idx = 0
    /\ matched = <<>> /\ unmatched = <<>> /\ match_stats = <<>>
    /\ steps = <<>> /\ outcome = "running"
    /\ backup_mode = FALSE
    /\ config \in {Config(file) : file \in ConfigFiles}
    /\ fs = EmptyFs /\ source = {} /\ albums = <<>> /\ placed = <<>>
    /\ earlier = None /\ other = NoCall

NextConfig == ConfigLoad \/ ConfigGetSourceFolder \/ ConfigGetTargetFolder

SpecConfig == InitConfig /\ [][NextConfig]_vars

(***************************************************************************)
(* AlbumCreator, ReportGenerator and GalleryGenerator.  The photos given   *)
(* to create_albums come from PhotoScanner.scan, which always sets         *)
(* file_created.                                                           *)
(***************************************************************************)
\* p.exif_date or p.file_created
photo_date(photo) ==
    TheValue(IF TruthyObj(photo.exif_date) THEN photo.exif_date ELSE photo.file_created)

\* min(dates) over the photos of a bucket
min_date(bucket) ==
    CHOOSE d \in {photo_date(bucket[k]) : k \in DOMAIN bucket} :
        \A k \in DOMAIN bucket : d <= photo_date(bucket[k])

\* _get_album_date: the date filter's year and month, or its year and
\* January, or else the earliest photo date
get_album_date(bucket, spec, h) ==
    LET f == h[spec.date_filter]
    IN  IF spec.date_filter # 0 /\ TruthyInt(f.year) /\ TruthyInt(f.month)
        THEN datetime(TheValue(f.year), TheValue(f.month))
        ELSE IF spec.date_filter # 0 /\ TruthyInt(f.year)
        THEN datetime(TheValue(f.year), 1)
        ELSE min_date(bucket)

\* create_folder: the folder "YYYY-MM-Album-Name" under the target folder,
\* kept as its three parts, the name with '-' for every ' '
folder_path(album_name, date) ==
    [year |-> dt_year(date), month |-> dt_month(date),
     name |-> [k \in DOMAIN album_name |->
                  IF album_name[k] = " " THEN "-" ELSE album_name[k]]]

\* str(counter)
RECURSIVE str_of_int(_)
str_of_int(n) ==
    IF n < 10 THEN <<Digits[n + 1]>>
    ELSE str_of_int(n \div 10) \o <<Digits[(n % 10) + 1]>>

\* the position of the dot that starts Path.suffix, or 0: the last dot, if
\* it is neither the first nor the last character of the name
suffix_dot(name) ==
    LET dots == {k \in DOMAIN name : name[k] = "."}
        last == CHOOSE k \in dots : \A j \in dots : j <= k
    IN  IF dots # {} /\ last > 1 /\ last < Len(name) THEN last ELSE 0

\* f"{stem}_{counter}{suffix}"
suffixed_name(name, counter) ==
    LET d == suffix_dot(name)
        stem == IF d = 0 THEN name ELSE SubSeq(name, 1, d - 1)
        suffix == IF d = 0 THEN <<>> ELSE SubSeq(name, d, Len(name))
    IN  stem \o <<"_">> \o str_of_int(counter) \o suffix

\* _resolve_conflict: the while loop from counter on
RECURSIVE first_free_name(_, _, _, _)
first_free_name(files, folder, name, counter) ==
    LET new_name == suffixed_name(name, counter)
    IN  IF [folder |-> folder, name |-> new_name] \notin files THEN new_name
        ELSE first_free_name(files, folder, name, counter + 1)

\* a _resolve_conflict that hands the destination back untested
resolve_conflict_keeps_name(files, folder, name) == name

\* _resolve_conflict: the name itself if no such file exists in the folder
resolve_conflict(files, folder, name) ==
    IF [folder |-> folder, name |-> name] \notin files THEN name
    ELSE first_free_name(files, folder, name, 1)

\* organize_photos, the loop from photo k on.  st holds fs, source, placed
\* and organized_count.  shutil.copy2 / shutil.move raise when the source
\* file is gone; the except clause then goes on with the next photo.
RECURSIVE organize_photos(_, _, _, _, _, _)
organize_photos(folder, bucket, k, st, dry, backup) ==
    IF k > Len(bucket) THEN st
    ELSE LET photo == bucket[k]
             dest == [folder |-> folder,
                      name |-> resolve_conflict(st.fs.files, folder, photo.filename)]
             write == [photo |-> photo.path, dest |-> dest,
                       existed |-> dest \in st.fs.files,
                       how |-> IF backup THEN "copy" ELSE "move"]
             st1 == IF dry
                    THEN [st EXCEPT !.count = @ + 1]
                    ELSE IF photo.path \notin st.source
                    THEN st
                    ELSE [st EXCEPT !.fs.files = @ \cup {dest},
                                    !.source = IF backup THEN @ ELSE @ \ {photo.path},
                                    !.placed = Append(@, write),
                                    !.count = @ + 1]
         IN  organize_photos(folder, bucket, k + 1, st1, dry, backup)

README_md == <<"R","E","A","D","M","E",".","m","d">>
summary_json == <<"s","u","m","m","a","r","y",".","j","s","o","n">>

\* create_albums, the loop from spec k on.  st holds fs, source, placed and
\* the albums list.
RECURSIVE create_albums_from(_, _, _, _, _, _, _)
create_albums_from(m, specs, h, k, st, dry, backup) ==
    IF k > Len(specs) THEN st
    ELSE LET spec == specs[k]
             bucket == IF spec.name \in DOMAIN m THEN m[spec.name] ELSE <<>>
             folder == folder_path(spec.name, get_album_date(bucket, spec, h))
             made == IF dry THEN st ELSE [st EXCEPT !.fs.dirs = @ \cup {folder}]
             done == organize_photos(folder, bucket, 1,
                        [fs |-> made.fs, source |-> made.source,
                         placed |-> made.placed, count |-> 0], dry, backup)
             album == [name |-> spec.name, path |-> folder, photos |-> bucket,
                       keywords |-> spec.keywords, organized_count |-> done.count]
             docs == IF dry THEN done.fs
                     ELSE [done.fs EXCEPT !.files = @ \cup
                              {[folder |-> folder, name |-> README_md],
                               [folder |-> folder, name |-> summary_json]}]
         IN  IF bucket = <<>>
             THEN create_albums_from(m, specs, h, k + 1, st, dry, backup)
             ELSE create_albums_from(m, specs, h, k + 1,
                      [fs |-> docs, source |-> done.source, placed |-> done.placed,
                       albums |-> Append(st.albums, album)], dry, backup)

\* create_albums: the target folder is made first unless this is a dry run
create_albums(m, specs, h, st, dry, backup) ==
    create_albums_from(m, specs, h, 1,
        IF dry THEN st ELSE [st EXCEPT !.fs.root = @ \cup {"target"}], dry, backup)

\* the report writing its logs in a dry run too
generate_unmatched_log_in_dry_run_too(files, dry) ==
    [files EXCEPT !.root = @ \cup {"logs", "logs/unmatched.log", "logs/<timestamp>.log"}]

\* ReportGenerator(log_dir, dry_run) and generate_unmatched_log: the log
\* folder, unmatched.log and the timestamped log file log_info appends to
generate_unmatched_log(files, dry) ==
    IF dry THEN files
    ELSE [files EXCEPT !.root = @ \cup {"logs", "logs/unmatched.log", "logs/<timestamp>.log"}]

\* GalleryGenerator.generate_index: index.html in the target folder
generate_index(files, dry) ==
    IF dry THEN files
    ELSE [files EXCEPT !.root = @ \cup {"target/index.html"}]

(***************************************************************************)
(* The two front-ends: main() of .kiro/hooks/album.py ("cli") and of       *)
(* app.py ("app").  A run is one invocation of the hook, or one click on   *)
(* the run button.  `steps` records the steps the run executed; fs,        *)
(* source, albums and placed hold what create_albums, the report and the   *)
(* gallery did.                                                            *)
(***************************************************************************)
\* `not prompt or not prompt.strip()`
prompt_is_blank(p) == p = <<>> \/ strip(p) = <<>>

\* album.py: `if not album_specs:` after parse, with the check left out
cli_no_albums_unchecked(specs) == FALSE

\* album.py: `if not album_specs:` after parse
cli_no_albums(specs) == specs = <<>>

\* app.py: `if not album_specs:` after parse
app_no_albums(specs) == specs = <<>>

\* apply_additional_filters, the loop from spec k on: (specs, heap) after it
RECURSIVE apply_filters_from(_, _, _, _, _)
apply_filters_from(specs, h, k, mf, yf) ==
    IF k > Len(specs) THEN <<specs, h>>
    ELSE LET fresh == specs[k].date_filter = 0
             h1 == IF fresh THEN Append(h, NoFilter) ELSE h
             ref == IF fresh THEN Len(h1) ELSE specs[k].date_filter
             specs1 == [specs EXCEPT ![k].date_filter = ref]
             h2 == IF TruthyInt(yf) THEN [h1 EXCEPT ![ref].year = yf] ELSE h1
             h3 == IF TruthyInt(mf) THEN [h2 EXCEPT ![ref].month = mf] ELSE h2
         IN  apply_filters_from(specs1, h3, k + 1, mf, yf)

\* apply_additional_filters that updates the first spec only
apply_additional_filters_first_spec_only(specs, h, mf, yf) ==
    IF (~TruthyInt(mf) /\ ~TruthyInt(yf)) \/ specs = <<>> THEN <<specs, h>>
    ELSE LET r == apply_filters_from(<<Head(specs)>>, h, 1, mf, yf)
         IN  <<r[1] \o Tail(specs), r[2]>>

\* apply_additional_filters without the early return for no selection
apply_additional_filters_without_return(specs, h, mf, yf) ==
    apply_filters_from(specs, h, 1, mf, yf)

apply_additional_filters(specs, h, mf, yf) ==
    IF ~TruthyInt(mf) /\ ~TruthyInt(yf) THEN <<specs, h>>
    ELSE apply_filters_from(specs, h, 1, mf, yf)

\* the photo lists PhotoScanner.scan() may return: one record for every file
\* of the source folder, each with its file_created, in the order of os.walk
\* (SourcePhotos: the photo files there can be, two of them of the same file
\* name in different subfolders)
SourcePhotos ==
    PhotoUniverse
    \cup {PhotoMetadata("p6", <<"F","e","s","t","1">>, <<"o","l","d">>, Some(datetime(2024, 3)), None)}
ScannedPhotos == {ph \in SourcePhotos : ph.path \in source}
ScanResults ==
    {phs \in [1..Cardinality(ScannedPhotos) -> ScannedPhotos] :
        \A i, j \in DOMAIN phs : i # j => phs[i] # phs[j]}

\* the source folders of the runs: up to MaxPhotos photo files
SourceFolders ==
    {{ph.path : ph \in S} :
        S \in {T \in SUBSET {ph \in SourcePhotos : ph.file_created # None} :
                  Cardinality(T) <= MaxPhotos}}

\* the target folder of the runs: empty, or left by an earlier run with the
\* album folder 2024-03-Fest that holds Fest1 and Fest1_1
FestFolder == folder_path(<<"F","e","s","t">>, datetime(2024, 3))
EarlierRunFs ==
    [root |-> {"target"}, dirs |-> {FestFolder},
     files |-> {[folder |-> FestFolder, name |-> <<"F","e","s","t","1">>],
                [folder |-> FestFolder, name |-> <<"F","e","s","t","1","_","1">>]}]

\* ---- album.py ----
CliCheckPrompt ==
    /\ frontend = "cli" /\ pc = "check"
    /\ IF prompt_is_blank(prompt)
       THEN pc' = "done" /\ outcome' = "error"
       ELSE pc' = "config" /\ UNCHANGED outcome
    /\ UNCHANGED steps
    /\ UNCHANGED vars_run /\ UNCHANGED vars_env /\ UNCHANGED vars_calls /\ UNCHANGED vars_parse /\ UNCHANGED vars_match

\* config.load() and the getters: they raise when the file is missing or
\* invalid, which main() turns into exit status 1
CliLoadConfig ==
    /\ frontend = "cli" /\ pc = "config"
    /\ LET l == load(config)
           s == IF l.raised = "" THEN get_source_folder(l.config) ELSE l
           t == IF s.raised = "" THEN get_target_folder(s.config) ELSE s
       IN  /\ config' = t.config
           /\ IF t.raised = ""
              THEN pc' = "parse" /\ steps' = Append(steps, "config") /\ UNCHANGED outcome
              ELSE pc' = "done" /\ outcome' = "error" /\ UNCHANGED steps
    /\ UNCHANGED <<fs, source, albums, placed>>
    /\ UNCHANGED vars_run /\ UNCHANGED vars_calls /\ UNCHANGED vars_parse /\ UNCHANGED vars_match

CliParse ==
    /\ frontend = "cli" /\ pc = "parse"
    /\ ParseCall
    /\ steps' = Append(steps, "parse")
    /\ IF cli_no_albums(album_specs')
       THEN pc' = "done" /\ outcome' = "error"
       ELSE pc' = "scan" /\ UNCHANGED outcome
    /\ UNCHANGED vars_run /\ UNCHANGED vars_env /\ UNCHANGED vars_calls /\ UNCHANGED vars_match

CliScan ==
    /\ frontend = "cli" /\ pc = "scan"
    /\ photos' \in ScanResults
    /\ steps' = Append(steps, "scan")
    /\ IF photos' = <<>>
       THEN pc' = "done" /\ outcome' = "empty"
       ELSE pc' = "match" /\ UNCHANGED outcome
    /\ UNCHANGED <<mpc, idx, matched, unmatched, match_stats>>
    /\ UNCHANGED vars_run /\ UNCHANGED vars_env /\ UNCHANGED vars_calls /\ UNCHANGED vars_parse

\* `except Exception` around the steps: the error is printed, exit status 1
CliMatchError ==
    /\ frontend = "cli" /\ pc = "match" /\ mpc = "raised"
    /\ pc' = "done" /\ outcome' = "error"
    /\ UNCHANGED steps
    /\ UNCHANGED vars_run /\ UNCHANGED vars_env /\ UNCHANGED vars_calls /\ UNCHANGED vars_parse /\ UNCHANGED vars_match

CliCreateAlbums ==
    /\ frontend = "cli" /\ pc = "match" /\ mpc = "done"
    /\ steps' = Append(steps, "create_albums")
    /\ pc' = "report"
    /\ UNCHANGED outcome
    /\ LET st == create_albums(matched, album_specs, heap,
                   [fs |-> fs, source |-> source, placed |-> placed, albums |-> <<>>],
                   dry_run, backup_mode)
       IN  /\ fs' = st.fs /\ source' = st.source
           /\ placed' = st.placed /\ albums' = st.albums
    /\ UNCHANGED config
    /\ UNCHANGED vars_run /\ UNCHANGED vars_calls /\ UNCHANGED vars_parse /\ UNCHANGED vars_match

CliReport ==
    /\ frontend = "cli" /\ pc = "report"
    /\ steps' = Append(steps, "report")
    /\ pc' = IF dry_run THEN "summary" ELSE "gallery"
    /\ UNCHANGED outcome
    /\ fs' = generate_unmatched_log(fs, dry_run)
    /\ UNCHANGED <<config, source, albums, placed>>
    /\ UNCHANGED vars_run /\ UNCHANGED vars_calls /\ UNCHANGED vars_parse /\ UNCHANGED vars_match

CliGallery ==
    /\ frontend = "cli" /\ pc = "gallery"
    /\ steps' = Append(steps, "gallery")
    /\ pc' = "summary"
    /\ UNCHANGED outcome
    /\ fs' = generate_index(fs, dry_run)
    /\ UNCHANGED <<config, source, albums, placed>>
    /\ UNCHANGED vars_run /\ UNCHANGED vars_calls /\ UNCHANGED vars_parse /\ UNCHANGED vars_match

CliSummary ==
    /\ frontend = "cli" /\ pc = "summary"
    /\ steps' = Append(steps, "summary")
    /\ pc' = "done" /\ outcome' = "ok"
    /\ UNCHANGED vars_run /\ UNCHANGED vars_env /\ UNCHANGED vars_calls /\ UNCHANGED vars_parse /\ UNCHANGED vars_match

\* ---- app.py ----
\* load_configuration() in the sidebar; st.stop() when it returns None
AppLoadConfig ==
    /\ frontend = "app" /\ pc = "config"
    /\ LET l == load(config)
           s == IF l.raised = "" THEN get_source_folder(l.config) ELSE l
           t == IF s.raised = "" THEN get_target_folder(s.config) ELSE s
       IN  /\ config' = t.config
           /\ IF t.raised = ""
              THEN pc' = "check" /\ steps' = Append(steps, "config") /\ UNCHANGED outcome
              ELSE pc' = "done" /\ outcome' = "error" /\ UNCHANGED steps
    /\ UNCHANGED <<fs, source, albums, placed>>
    /\ UNCHANGED vars_run /\ UNCHANGED vars_calls /\ UNCHANGED vars_parse /\ UNCHANGED vars_match

AppCheckPrompt ==
    /\ frontend = "app" /\ pc = "check"
    /\ IF prompt_is_blank(prompt)
       THEN pc' = "done" /\ outcome' = "error"
       ELSE pc' = "parse" /\ UNCHANGED outcome
    /\ UNCHANGED steps
    /\ UNCHANGED vars_run /\ UNCHANGED vars_env /\ UNCHANGED vars_calls /\ UNCHANGED vars_parse /\ UNCHANGED vars_match

AppParse ==
    /\ frontend = "app" /\ pc = "parse"
    /\ ParseCall
    /\ steps' = Append(steps, "parse")
    /\ IF app_no_albums(album_specs')
       THEN pc' = "done" /\ outcome' = "error"
       ELSE pc' = "filters" /\ UNCHANGED outcome
    /\ UNCHANGED vars_run /\ UNCHANGED vars_env /\ UNCHANGED vars_calls /\ UNCHANGED vars_match

AppApplyFilters ==
    /\ frontend = "app" /\ pc = "filters"
    /\ LET r == apply_additional_filters(album_specs, heap, month_filter, year_filter)
       IN  album_specs' = r[1] /\ heap' = r[2]
    /\ steps' = Append(steps, "filters")
    /\ pc' = "scan"
    /\ UNCHANGED <<dates, outcome>>
    /\ UNCHANGED vars_run /\ UNCHANGED vars_env /\ UNCHANGED vars_calls /\ UNCHANGED vars_match

AppScan ==
    /\ frontend = "app" /\ pc = "scan"
    /\ photos' \in ScanResults
    /\ steps' = Append(steps, "scan")
    /\ IF photos' = <<>>
       THEN pc' = "done" /\ outcome' = "empty"
       ELSE pc' = "match" /\ UNCHANGED outcome
    /\ UNCHANGED <<mpc, idx, matched, unmatched, match_stats>>
    /\ UNCHANGED vars_run /\ UNCHANGED vars_env /\ UNCHANGED vars_calls /\ UNCHANGED vars_parse

\* `except Exception` around the steps: st.error shows the message
AppMatchError ==
    /\ frontend = "app" /\ pc = "match" /\ mpc = "raised"
    /\ pc' = "done" /\ outcome' = "error"
    /\ UNCHANGED steps
    /\ UNCHANGED vars_run /\ UNCHANGED vars_env /\ UNCHANGED vars_calls /\ UNCHANGED vars_parse /\ UNCHANGED vars_match

AppCreateAlbums ==
    /\ frontend = "app" /\ pc = "match" /\ mpc = "done"
    /\ steps' = Append(steps, "create_albums")
    /\ pc' = IF dry_run THEN "display" ELSE "report"
    /\ UNCHANGED outcome
    /\ LET st == create_albums(matched, album_specs, heap,
                   [fs |-> fs, source |-> source, placed |-> placed, albums |-> <<>>],
                   dry_run, backup_mode)
       IN  /\ fs' = st.fs /\ source' = st.source
           /\ placed' = st.placed /\ albums' = st.albums
    /\ UNCHANGED config
    /\ UNCHANGED vars_run /\ UNCHANGED vars_calls /\ UNCHANGED vars_parse /\ UNCHANGED vars_match

\* the `if not dry_run:` block: the unmatched log, then the gallery index
AppReports ==
    /\ frontend = "app" /\ pc = "report"
    /\ steps' = steps \o <<"report", "gallery">>
    /\ pc' = "display"
    /\ UNCHANGED outcome
    /\ fs' = generate_index(generate_unmatched_log(fs, FALSE), FALSE)
    /\ UNCHANGED <<config, source, albums, placed>>
    /\ UNCHANGED vars_run /\ UNCHANGED vars_calls /\ UNCHANGED vars_parse /\ UNCHANGED vars_match

AppDisplay ==
    /\ frontend = "app" /\ pc = "display"
    /\ steps' = Append(steps, "summary")
    /\ pc' = "done" /\ outcome' = "ok"
    /\ UNCHANGED vars_run /\ UNCHANGED vars_env /\ UNCHANGED vars_calls /\ UNCHANGED vars_parse /\ UNCHANGED vars_match

\* the prompts given to the front-ends
RunPrompts ==
    { <<>>, <<" ">>, <<"S","o","r","t"," ","b","y"," ","2","0","2","4">>, <<"2","0","2","4","-","0","3">>, <<"f","e","s","t"," ","a","n","d"," ","t","r","i","p">>,
      <<"S","o","r","t"," ","b","y"," ","f","e","s","t",","," ","f","e","s","t"," ","M","a","r","c","h"," ","2","0","2","4">>, <<"N","C","C","*"," ","o","r"," ","i","m","g">>,
      <<"(","*">> }

Init ==
    /\ frontend \in {"cli", "app"}
    /\ pc = IF frontend = "cli" THEN "check" ELSE "config"
    /\ prompt \in RunPrompts
    /\ dry_run \in BOOLEAN
    /\ month_filter \in (IF frontend = "app" THEN {None, Some(5)} ELSE {None})
    /\ year_filter \in (IF frontend = "app" THEN {None, Some(2025)} ELSE {None})
    /\ heap = <<>> /\ dates = <<>> /\ album_specs = <<>>
    /\ photos = <<>> /\ mpc = "idle" /\ idx = 0
    /\ matched = <<>> /\ unmatched = <<>> /\ match_stats = <<>>
    /\ steps = <<>> /\ outcome = "running"
    /\ backup_mode \in BOOLEAN
    /\ config \in {Config(file) : file \in ConfigFiles}
    /\ fs \in {EmptyFs, EarlierRunFs}
    /\ source \in SourceFolders
    /\ albums = <<>> /\ placed = <<>>
    /\ earlier = None /\ other = NoCall

Next ==
    \/ CliCheckPrompt \/ CliLoadConfig \/ CliParse \/ CliScan
    \/ CliMatchError \/ CliCreateAlbums \/ CliReport \/ CliGallery \/ CliSummary
    \/ AppLoadConfig \/ AppCheckPrompt \/ AppParse \/ AppApplyFilters \/ AppScan
    \/ AppMatchError \/ AppCreateAlbums \/ AppReports \/ AppDisplay
    \/ MatchBegin \/ MatchPhoto \/ MatchRaise \/ MatchFinish

Spec == Init /\ [][Next]_vars

(***************************************************************************)
(* Properties of PatternMatcher (checked under SpecMatch)                  *)
(***************************************************************************)
Count(p, s) == Cardinality({k \in DOMAIN s : s[k] = p})
\* every (bucket, position) of the matched dict
BucketSlots == UNION {{<<n, k>> : k \in DOMAIN matched[n]} : n \in DOMAIN matched}
InBucket(p, n) == n \in DOMAIN matched /\ p \in Range(matched[n])
HasStar(keyword) == "*" \in Range(keyword)

\* C1: partition totality. Once match has processed a prefix of the photo
\* list (all of it when match returns), every photo of that prefix sits in
\* exactly one place: the bucket lengths and len(unmatched) add up to the
\* number of photos processed, and every photo occurs in the buckets and in
\* unmatched together exactly as often as in the input.
PartitionTotality ==
    mpc \in {"loop", "done"} =>
        LET seen == SubSeq(photos, 1, idx - 1)
        IN  /\ Cardinality(BucketSlots) + Len(unmatched) = Len(seen)
            /\ \A p \in Range(photos) :
                  Count(p, seen) =
                      Cardinality({s \in BucketSlots : matched[s[1]][s[2]] = p})
                      + Count(p, unmatched)

\* match returned for two photos and two differently named specs that both
\* match the first photo, while the second photo matched nothing
PartitionWitness ==
    /\ mpc = "done" /\ Len(photos) = 2 /\ Len(album_specs) = 2
    /\ album_specs[1].name # album_specs[2].name
    /\ matches_spec(photos[1], album_specs[1], heap)
    /\ matches_spec(photos[1], album_specs[2], heap)
    /\ Len(unmatched) = 1 /\ Cardinality(BucketSlots) = 1

\* C2: first-match priority. When match has returned, a photo that satisfies
\* _matches_spec for the specs at positions i < j is in the bucket of the spec
\* at position i and not in the bucket of the spec at position j (two specs
\* of the same name have one bucket between them, which is then read as the
\* bucket of the spec at position i).
FirstMatchPriority ==
    mpc = "done" =>
        \A k \in DOMAIN photos : \A i \in DOMAIN album_specs : \A j \in DOMAIN album_specs :
            (/\ i < j
             /\ matches_spec(photos[k], album_specs[i], heap)
             /\ matches_spec(photos[k], album_specs[j], heap))
            => /\ InBucket(photos[k], album_specs[i].name)
               /\ album_specs[j].name # album_specs[i].name
                      => ~InBucket(photos[k], album_specs[j].name)

\* C3: date-keyword precedence. For every photo and spec of the call,
\* _matches_spec is true exactly when some keyword of the spec matches the
\* filename or the folder name, whether or not the spec has a date filter and
\* whatever match_date says.
KeywordHit(photo, spec) ==
    \E k \in DOMAIN spec.keywords :
        \/ keyword_matches(spec.keywords[k], lower(photo.filename))
        \/ keyword_matches(spec.keywords[k], lower(photo.folder_name))

RECURSIVE glob_here(_, _, _, _)
glob_here(keyword, p, text, t) ==
    IF p > Len(keyword) THEN TRUE
    ELSE IF keyword[p] = "*"
    THEN \/ glob_here(keyword, p + 1, text, t)
         \/ t <= Len(text) /\ glob_here(keyword, p, text, t + 1)
    ELSE /\ t <= Len(text)
         /\ lower_char(keyword[p]) = lower_char(text[t])
         /\ glob_here(keyword, p + 1, text, t + 1)
GlobPrefix(keyword, text) == glob_here(keyword, 1, text, 1)

\* C4: wildcard semantics. A keyword containing "*" matches the filename
\* (match_filename) and the folder name (match_folder) exactly when a prefix
\* of that string matches the keyword read as a glob anchored at the start,
\* every character other than "*" standing only for itself up to case.
WildcardSemantics ==
    mpc = "done" =>
        \A k \in DOMAIN photos : \A i \in DOMAIN album_specs :
            \A keyword \in {w \in Range(album_specs[i].keywords) : HasStar(w)} :
                /\ match_filename(photos[k], <<keyword>>)
                       <=> GlobPrefix(keyword, photos[k].filename)
                /\ match_folder(photos[k], <<keyword>>)
                       <=> GlobPrefix(keyword, photos[k].folder_name)

\* the keyword is a contiguous substring of the text, compared without case
SubstringNoCase(keyword, text) ==
    \E off \in 0..(Len(text) - Len(keyword)) :
        \A k \in 1..Len(keyword) : lower_char(text[off + k]) = lower_char(keyword[k])

\* C5: literal keyword semantics. A keyword without "*" matches a photo
\* exactly when it is, case-insensitively, a contiguous substring of the
\* filename or of the folder name, and keyword_match of a spec is the
\* disjunction over its keywords and over both strings.
LiteralKeywordSemantics ==
    \A k \in DOMAIN photos : \A i \in DOMAIN album_specs :
        /\ \A keyword \in {w \in Range(album_specs[i].keywords) : ~HasStar(w)} :
              (match_filename(photos[k], <<keyword>>) \/ match_folder(photos[k], <<keyword>>))
              <=> (\/ SubstringNoCase(keyword, photos[k].filename)
                   \/ SubstringNoCase(keyword, photos[k].folder_name))
        /\ keyword_match(photos[k], album_specs[i])
              <=> \E keyword \in Range(album_specs[i].keywords) :
                     \/ match_filename(photos[k], <<keyword>>)
                     \/ match_folder(photos[k], <<keyword>>)

\* match put a photo in a bucket because the second keyword of the spec, a
\* literal one, occurs in the folder name only
LiteralKeywordWitness ==
    /\ mpc = "done" /\ Len(photos) = 1 /\ Len(album_specs) = 1
    /\ Len(album_specs[1].keywords) = 2
    /\ ~HasStar(album_specs[1].keywords[2])
    /\ SubstringNoCase(album_specs[1].keywords[2], photos[1].folder_name)
    /\ ~SubstringNoCase(album_specs[1].keywords[2], photos[1].filename)
    /\ ~SubstringNoCase(album_specs[1].keywords[1], photos[1].folder_name)
    /\ ~SubstringNoCase(album_specs[1].keywords[1], photos[1].filename)
    /\ matched[album_specs[1].name] = <<photos[1]>>


(***************************************************************************)
(* Properties of PromptParser (checked under SpecParse)                    *)
(***************************************************************************)
\* the DateFilter objects of the list extract_dates returned to parse
ExtractedDates == [k \in DOMAIN dates |-> heap[dates[k]]]
YearOnly(f) == f.year # None /\ f.month = None
MonthBearing(f) == f.year # None /\ f.month # None

\* the prompt "Photos from March 2024 and also 2023"
MonthAndYearPrompt ==
    <<"P","h","o","t","o","s"," ","f","r","o","m"," ","M","a","r","c","h"," ","2","0","2","4"," ","a","n","d"," ","a","l","s","o"," ","2","0","2","3">>

\* C6: date extraction precedence. After parse, the list extract_dates
\* returned holds a year-only filter only if the prompt yields no
\* "<month-name> <year>" filter and no YYYY-MM filter with MM in 1..12, and
\* then the year is in 2000..2100; if it holds a month-bearing filter it
\* holds no year-only one; and "Photos from March 2024 and also 2023" yields
\* exactly DateFilter(year=2024, month=3).
DateExtractionPrecedence ==
    pc = "parsed" =>
        /\ \A k \in DOMAIN dates :
              YearOnly(ExtractedDates[k]) =>
                  /\ find_month_years(lower(prompt), 1) = <<>>
                  /\ find_year_months(lower(prompt), 1) = <<>>
                  /\ TheValue(ExtractedDates[k].year) \in 2000..2100
        /\ (\E k \in DOMAIN dates : MonthBearing(ExtractedDates[k]))
              => \A k \in DOMAIN dates : MonthBearing(ExtractedDates[k])
        /\ prompt = MonthAndYearPrompt
              => ExtractedDates = <<DateFilter(Some(2024), Some(3))>>

\* parse returned for a prompt with a month-year pair and a bare year in
\* range: only the month-bearing filter was extracted
DateExtractionWitness ==
    /\ pc = "parsed"
    /\ find_years(lower(prompt), 1) # <<>>
    /\ Len(dates) = 1 /\ MonthBearing(ExtractedDates[1])
    /\ find_month_years(lower(prompt), 1) # <<>>

\* C7: global date binding. After parse, every spec carries the same date
\* filter: the first element of the list extract_dates returned when that
\* list is non-empty, None otherwise.
GlobalDateBinding ==
    pc = "parsed" =>
        \A k \in DOMAIN album_specs :
            album_specs[k].date_filter = (IF dates # <<>> THEN dates[1] ELSE 0)

\* parse returned two specs for a prompt with two different dates, and both
\* carry the first date
GlobalDateWitness ==
    /\ pc = "parsed" /\ Len(album_specs) = 2 /\ Len(dates) = 2
    /\ heap[dates[1]] # heap[dates[2]]
    /\ album_specs[1].date_filter = dates[1]
    /\ album_specs[2].date_filter = dates[1]

\* the prompts made of date tokens and lead-in phrases only
DateOnlyPrompts == JoinedPrompts(DateTokens \cup LeadInTokens)

\* C9: a prompt that consists only of date tokens (bare years, month names,
\* YYYY-MM tokens) and lead-in phrases makes parse return the empty
\* sequence.
DateOnlyPromptYieldsNothing ==
    (pc = "parsed" /\ prompt \in DateOnlyPrompts) => album_specs = <<>>


(***************************************************************************)
(* Properties of the front-ends (checked under Spec)                       *)
(***************************************************************************)
LaterSteps == {"filters", "scan", "match", "create_albums", "report", "gallery", "summary"}

\* C10: pipeline ordering on an unparseable prompt. In a run of either
\* front-end, once parse has returned an empty spec list the run has ended
\* in the error outcome and has executed no step after parse: no photo scan,
\* match, album creation, report or gallery.
EmptyParseStopsRun ==
    (frontend \in {"cli", "app"} /\ "parse" \in Range(steps) /\ album_specs = <<>>)
        => /\ pc = "done" /\ outcome = "error"
           /\ Range(steps) \cap LaterSteps = {}
           /\ photos = <<>> /\ mpc = "idle"

\* an app run whose prompt passed the blank check and whose parse returned
\* no spec
EmptyParseWitness ==
    /\ frontend = "app" /\ ~prompt_is_blank(prompt)
    /\ steps = <<"config", "parse">> /\ album_specs = <<>>
    /\ pc = "done" /\ outcome = "error"

\* ---- C11 ----
\* the word w stands at position k of text with whitespace on both sides
ConjunctionAt(text, k, w) ==
    /\ k > 1 /\ starts_with_at(text, k, w)
    /\ IsSpace(text[k - 1])
    /\ k + Len(w) <= Len(text) /\ IsSpace(text[k + Len(w)])
\* position j of text lies inside a whitespace-delimited "and" or "or"
InConjunction(text, j) ==
    \E w \in {<<"a","n","d">>, <<"o","r">>} :
        \E k \in (j - Len(w) + 1)..j : k >= 1 /\ ConjunctionAt(text, k, w)
\* the names of the non-empty segments of text, split on commas and on the
\* whitespace-delimited conjunctions
SegmentNames(text) ==
    LET cut == [j \in 1..Len(text) |-> IF InConjunction(text, j) THEN "," ELSE text[j]]
        raw == split_on(cut, 1, ",", <<>>)
    IN  names_of_parts([k \in DOMAIN raw |-> strip(raw[k])])
ParsedNames == [k \in DOMAIN album_specs |-> album_specs[k].name]
\* C11: once the lead-in phrases and the date expressions are removed, parse
\* has one album name per non-empty segment between commas and
\* whitespace-delimited "and"/"or", in prompt order, each with its words
\* capitalised and joined by single spaces
NameExtraction ==
    pc = "parsed" =>
        ParsedNames = SegmentNames(remove_dates(remove_phrases(lower(prompt))))

\* ---- C12 ----
\* the lower-cased words of name that are not stop words, in their order
RECURSIVE NonStopWords(_)
NonStopWords(words) ==
    IF words = <<>> THEN <<>>
    ELSE LET rest == NonStopWords(Tail(words))
         IN  IF Head(words) \in STOP_WORDS THEN rest ELSE <<Head(words)>> \o rest
NameWords(name) == NonStopWords(split_words(lower(name), 1, <<>>))
OneBucketPerSpec ==
    mpc = "done" => Cardinality(DOMAIN matched) = Len(album_specs)

\* ---- C14 ----
\* s is a subsequence of t: s can be read off t from position k on, in order
RECURSIVE IsSubsequenceFrom(_, _, _)
IsSubsequenceFrom(s, t, k) ==
    IF s = <<>> THEN TRUE
    ELSE IF k > Len(t) THEN FALSE
    ELSE IF t[k] = Head(s) THEN IsSubsequenceFrom(Tail(s), t, k + 1)
    ELSE IsSubsequenceFrom(s, t, k + 1)
\* C14: at every step of match, each bucket and the unmatched list are
\* subsequences of the input photo list, so photos of one bucket keep the
\* relative order of the input
EncounterOrder ==
    mpc \in {"loop", "done"} =>
        /\ IsSubsequenceFrom(unmatched, photos, 1)
        /\ \A n \in DOMAIN matched : IsSubsequenceFrom(matched[n], photos, 1)
\* match has returned a bucket holding two different photos
EncounterOrderWitness ==
    /\ mpc = "done"
    /\ \E n \in DOMAIN matched :
          Len(matched[n]) >= 2 /\ matched[n][1] # matched[n][2]

\* ---- C15 ----
\* the sum of the counts stats[n] over the names n of S
RECURSIVE SumStats(_, _)
SumStats(stats, S) ==
    IF S = {} THEN 0
    ELSE LET n == CHOOSE n \in S : TRUE
         IN  stats[n] + SumStats(stats, S \ {n})
\* C15: in the result of match, match_stats has the keys of matched, each
\* count is the length of its bucket, and the counts plus the number of
\* unmatched photos add up to the number of input photos
StatsConsistency ==
    mpc = "done" =>
        /\ DOMAIN match_stats = DOMAIN matched
        /\ \A n \in DOMAIN matched : match_stats[n] = Len(matched[n])
        /\ SumStats(match_stats, DOMAIN match_stats) + Len(unmatched) = Len(photos)
\* match has returned with a photo in a bucket and a photo in unmatched
StatsConsistencyWitness ==
    /\ mpc = "done"
    /\ unmatched # <<>>
    /\ \E n \in DOMAIN matched : match_stats[n] >= 1

\* ---- C16 ----
\* a photo with neither a capture date nor a file-created time
Dateless(photo) == photo.exif_date = None /\ photo.file_created = None
\* date filters of every shape: each of the four fields unset or set
FilterShapes ==
    [year : {None, Some(2024)}, month : {None, Some(3)},
     start_date : {None, Some(datetime(2024, 1))},
     end_date : {None, Some(datetime(2024, 12))}]
\* the positions of the specs one of whose keywords hits the photo
KeywordHits(photo) == {j \in DOMAIN album_specs : KeywordHit(photo, album_specs[j])}
\* C16: a photo without any date fails match_date for every date filter,
\* whatever fields are set, and match still finishes and places it by its
\* keywords alone: in unmatched when no spec's keywords hit it, otherwise in
\* the bucket of the first spec whose keywords hit it
MissingDatesNotErrors ==
    \A k \in DOMAIN photos :
        Dateless(photos[k]) =>
            /\ \A f \in FilterShapes \cup Range(heap) : ~match_date(photos[k], f)
            /\ mpc = "done" =>
                  LET hits == KeywordHits(photos[k])
                      first == CHOOSE j \in hits : \A i \in hits : j <= i
                  IN  /\ hits = {} => photos[k] \in Range(unmatched)
                      /\ hits # {} /\ album_specs[first].name # <<>>
                            => InBucket(photos[k], album_specs[first].name)
\* match has returned with a dateless photo in the bucket of a spec that has
\* a date filter
MissingDatesWitness ==
    /\ mpc = "done"
    /\ \E k \in DOMAIN photos : \E j \in DOMAIN album_specs :
          /\ Dateless(photos[k])
          /\ album_specs[j].date_filter # 0
          /\ KeywordHits(photos[k]) = {j}
          /\ InBucket(photos[k], album_specs[j].name)

\* ---- C17 ----
\* C17: whatever wildcard keywords the specs hold, stray parentheses and
\* repeated "*" included, match_filename and match_folder give true or false
\* and match returns a result: no exception leaves the matching logic
NoExceptionEscapesMatch ==
    mpc # "raised"

\* ---- C18 ----
\* the lists a match call over phs builds when nothing else runs: the photo
\* loop from photo k on, started from the lists m and u
RECURSIVE ResultAlone(_, _, _, _, _, _)
ResultAlone(phs, specs, h, k, m, u) ==
    IF k > Len(phs) THEN <<m, u>>
    ELSE LET r == place_photo(phs[k], specs, h, m, u)
         IN  ResultAlone(phs, specs, h, k + 1, r[1], r[2])
\* C18: a match call's result depends on its own photo list and its
\* matcher's spec list only: a second call on the same matcher with the same
\* photos returns a result equal to the first, with no photo carried over,
\* and two calls on different matchers over disjoint inputs, interleaved
\* photo by photo, each return what they return when run alone
CallIsolation ==
    /\ mpc = "done" =>
          /\ <<matched, unmatched>>
                = ResultAlone(photos, album_specs, heap, 1, empty_buckets(album_specs), <<>>)
          /\ earlier # None =>
                TheValue(earlier) = [matched |-> matched, unmatched |-> unmatched,
                                     match_stats |-> match_stats]
    /\ other.mpc = "done" =>
          <<other.matched, other.unmatched>>
              = ResultAlone(other.photos, other.album_specs, heap, 1,
                            empty_buckets(other.album_specs), <<>>)
\* both matchers have returned, this one for the second time, each with a
\* photo in a bucket, and the other call has an unmatched photo
CallIsolationWitness ==
    /\ mpc = "done" /\ earlier # None /\ other.mpc = "done"
    /\ other.unmatched # <<>>
    /\ \E n \in DOMAIN matched : matched[n] # <<>>
    /\ \E n \in DOMAIN other.matched : other.matched[n] # <<>>

\* ---- C19 ----
\* a step of a match call: the call's position or its lists change
MatchStep ==
    /\ pc = "match" /\ mpc \in {"idle", "loop"}
    /\ <<mpc, idx, matched, unmatched, match_stats>>'
          # <<mpc, idx, matched, unmatched, match_stats>>
\* C19: no step of match changes an AlbumSpec (name, keywords, date filter
\* and its fields, original_prompt), the order of the spec list, a photo
\* record or the input photo list
ReadOnlyInputs ==
    [][MatchStep => UNCHANGED <<album_specs, heap, photos>>]_vars
\* match has returned over two specs, one with a date filter, and two photos,
\* one of them placed in a bucket
ReadOnlyInputsWitness ==
    /\ mpc = "done" /\ Len(album_specs) = 2 /\ Len(photos) = 2
    /\ \E k \in DOMAIN album_specs : album_specs[k].date_filter # 0
    /\ \E n \in DOMAIN matched : matched[n] # <<>>

\* ---- C20 ----
\* the DateFilter f has at least one of its four fields set
HasConstraint(f) ==
    f.year # None \/ f.month # None \/ f.start_date # None \/ f.end_date # None
\* C20: after parse, and after apply_additional_filters with any month/year
\* selection, every spec's date_filter is absent or has at least one of
\* year, month, start_date, end_date set
NoEmptyDateFilter ==
    \A k \in DOMAIN album_specs :
        album_specs[k].date_filter # 0 => HasConstraint(heap[album_specs[k].date_filter])
\* the app has applied a month selection to specs parsed without a date: the
\* filter it attached has the month and nothing else
NoEmptyDateFilterWitness ==
    /\ frontend = "app" /\ pc = "scan" /\ dates = <<>>
    /\ month_filter # None /\ year_filter = None
    /\ \E k \in DOMAIN album_specs :
          /\ album_specs[k].date_filter # 0
          /\ heap[album_specs[k].date_filter].month = month_filter
          /\ heap[album_specs[k].date_filter].year = None

\* ---- C21 ----
\* the specs whose bucket holds a photo, in the order of the spec list
SpecsWithPhotos ==
    SelectSeq(album_specs,
              LAMBDA sp : sp.name \in DOMAIN matched /\ matched[sp.name] # <<>>)
\* C21: in a dry run no step creates, moves, copies or writes a file or a
\* directory (the target and log folders and the source folder stay as they
\* were), and create_albums still returns one Album, with the bucket's
\* photos, for every spec whose bucket is non-empty
DryRunLeavesFilesystem ==
    /\ [][dry_run => UNCHANGED <<fs, source>>]_vars
    /\ [](dry_run => placed = <<>>)
    /\ [](dry_run /\ pc \in {"report", "display"} =>
             /\ Len(albums) = Len(SpecsWithPhotos)
             /\ \A k \in DOMAIN albums :
                   /\ albums[k].name = SpecsWithPhotos[k].name
                   /\ albums[k].photos = matched[albums[k].name])
\* a dry run has finished with an album returned, over a target folder that
\* an earlier run left with a file of the same name as one of the photos
DryRunWitness ==
    /\ dry_run /\ pc = "done" /\ outcome = "ok"
    /\ fs = EarlierRunFs
    /\ \E k \in DOMAIN albums : \E j \in DOMAIN albums[k].photos :
          [folder |-> albums[k].path, name |-> albums[k].photos[j].filename] \in fs.files

\* ---- C22 ----
\* C22: when the configuration file is missing, load raises
\* ConfigNotFoundError and returns nothing, the Config object stays
\* unloaded, and every later call (load or a getter, which attempts the load
\* again) fails the same way
MissingConfigFile ==
    ~config.file.exists =>
        /\ config._config = None
        /\ \A k \in DOMAIN steps :
              steps[k].raised = "ConfigNotFoundError" /\ steps[k].returned = None
\* load failed on a missing file and a getter was called afterwards
MissingConfigWitness ==
    /\ ~config.file.exists
    /\ Len(steps) >= 2
    /\ steps[1].call = "load"
    /\ steps[2].call = "get_source_folder"

\* ---- C23 ----
\* C23: when match has returned, a photo is in unmatched exactly when
\* _matches_spec is false for it on every spec of the list (whatever the
\* names of the specs, the empty name and repeated names included), and a
\* photo that satisfies some spec is in the bucket named after the first
\* spec it satisfies
UnmatchedIffNoSpecMatches ==
    mpc = "done" =>
        \A k \in DOMAIN photos :
            /\ (photos[k] \in Range(unmatched))
                   <=> (\A i \in DOMAIN album_specs :
                           ~matches_spec(photos[k], album_specs[i], heap))
            /\ \A i \in DOMAIN album_specs :
                  (/\ matches_spec(photos[k], album_specs[i], heap)
                   /\ \A j \in 1..(i - 1) :
                         ~matches_spec(photos[k], album_specs[j], heap))
                  => InBucket(photos[k], album_specs[i].name)

\* ---- C25 ----
\* filters given to match_date: every field unset or set, the year and the
\* month also set to 0 (what parse builds from "0000" and from "2024-00")
DateFilterArguments ==
    [year : {None, Some(0), Some(2024)}, month : {None, Some(0), Some(3)},
     start_date : {None, Some(datetime(2024, 1))},
     end_date : {None, Some(datetime(2024, 12))}]
\* the date match_date looks at: the EXIF date when present, else file_created
PreferredDate(photo) ==
    IF photo.exif_date # None THEN photo.exif_date ELSE photo.file_created
\* C25: for a photo with a date, match_date is true exactly when every field
\* of the filter that is set (not None) holds of the photo's preferred date:
\* the year and the month are equal, the date is not before start_date and
\* not after end_date; a field that is None imposes nothing
MatchDateIsConjunction ==
    \A k \in DOMAIN photos :
        PreferredDate(photos[k]) # None =>
            \A f \in DateFilterArguments :
                LET d == TheValue(PreferredDate(photos[k]))
                IN  match_date(photos[k], f)
                        <=> /\ f.year # None => dt_year(d) = TheValue(f.year)
                            /\ f.month # None => dt_month(d) = TheValue(f.month)
                            /\ f.start_date # None => d >= TheValue(f.start_date)
                            /\ f.end_date # None => d <= TheValue(f.end_date)

\* ---- C24 ----
\* the "<month-name> <year>" expression that starts at position k, if any
MonthYearAt(text, k) ==
    LET hits == IF ~boundary_at(text, k) THEN {}
                ELSE {a \in DOMAIN MONTH_NAMES :
                         LET d == skip_spaces(text, k + Len(MONTH_NAMES[a][1]))
                         IN  /\ starts_with_at(text, k, MONTH_NAMES[a][1])
                             /\ d > k + Len(MONTH_NAMES[a][1])
                             /\ digits_at(text, d, 4)
                             /\ boundary_at(text, d + 4)}
    IN  IF hits = {} THEN <<>>
        ELSE LET a == CHOOSE a \in hits : \A b \in hits : a <= b
                 d == skip_spaces(text, k + Len(MONTH_NAMES[a][1]))
             IN  <<DateFilter(Some(int_at(text, d, 4)), Some(MONTH_NAMES[a][2]))>>
\* the YYYY-MM expression with MM in 1..12 that starts at position k, if any
YearMonthAt(text, k) ==
    IF /\ boundary_at(text, k) /\ digits_at(text, k, 4)
       /\ starts_with_at(text, k + 4, <<"-">>)
       /\ digits_at(text, k + 5, 2) /\ boundary_at(text, k + 7)
       /\ int_at(text, k + 5, 2) \in 1..12
    THEN <<DateFilter(Some(int_at(text, k, 4)), Some(int_at(text, k + 5, 2)))>>
    ELSE <<>>
\* the month-bearing date expressions of the text from position k on, in
\* the order of the positions where they start
RECURSIVE MonthBearingInOrder(_, _)
MonthBearingInOrder(text, k) ==
    IF k > Len(text) THEN <<>>
    ELSE MonthYearAt(text, k) \o YearMonthAt(text, k) \o MonthBearingInOrder(text, k + 1)
\* C24: after parse, the filters extract_dates returned are the month-bearing
\* date expressions of the prompt in left-to-right order of occurrence, also
\* when "<month-name> <year>" pairs and YYYY-MM tokens are mixed, and the
\* filter attached to the specs is the leftmost of them
DatesLeftToRight ==
    pc = "parsed" =>
        LET expected == MonthBearingInOrder(lower(prompt), 1)
        IN  expected # <<>> =>
                /\ ExtractedDates = expected
                /\ \A k \in DOMAIN album_specs :
                      /\ album_specs[k].date_filter # 0
                      /\ heap[album_specs[k].date_filter] = expected[1]
\* ---- C26 ----
\* C26: after parse, no spec's keyword list holds the same string twice
KeywordsDuplicateFree ==
    pc = "parsed" =>
        \A k \in DOMAIN album_specs :
            \A i \in DOMAIN album_specs[k].keywords :
                \A j \in DOMAIN album_specs[k].keywords :
                    album_specs[k].keywords[i] = album_specs[k].keywords[j] => i = j

\* ---- C27 ----
\* the file name of the photo a placement is about
PlacedFilename(w) == (CHOOSE ph \in SourcePhotos : ph.path = w.photo).filename
\* the names _resolve_conflict tries before it arrives at the name chosen:
\* the file name itself and stem_1, stem_2, ... below the chosen one
TriedBefore(w) ==
    IF w.dest.name = PlacedFilename(w) THEN {}
    ELSE LET c == CHOOSE c \in 1..(Cardinality(fs.files) + 1) :
                      w.dest.name = suffixed_name(PlacedFilename(w), c)
         IN  {PlacedFilename(w)}
             \cup {suffixed_name(PlacedFilename(w), b) : b \in 1..(c - 1)}
\* C27: organize_photos never copies or moves a photo onto a path that exists
\* at the time of the write; the photo goes to its own file name or, when
\* that is taken, to the first free name stem_1, stem_2, ...; so the placed
\* photos have pairwise distinct files, every one of them is in the folder,
\* and no file that was there before was written over
ConflictSafePlacement ==
    \A k \in DOMAIN placed :
        /\ ~placed[k].existed
        /\ placed[k].dest \in fs.files
        /\ \A j \in DOMAIN placed : placed[j].dest = placed[k].dest => j = k
        /\ \/ placed[k].dest.name = PlacedFilename(placed[k])
           \/ \E c \in 1..(Cardinality(fs.files) + 1) :
                 placed[k].dest.name = suffixed_name(PlacedFilename(placed[k]), c)
        /\ \A n \in TriedBefore(placed[k]) :
              /\ [folder |-> placed[k].dest.folder, name |-> n] \in fs.files
              /\ \A j \in k..Len(placed) :
                    placed[j].dest # [folder |-> placed[k].dest.folder, name |-> n]
\* a run placed two photos of the same file name in one album folder where
\* an earlier run had left the file name and stem_1: one of them went to
\* stem_2
ConflictWitness ==
    /\ ~dry_run /\ pc = "done" /\ outcome = "ok"
    /\ \E i, j \in DOMAIN placed :
          /\ i # j /\ placed[i].dest.folder = placed[j].dest.folder
          /\ PlacedFilename(placed[i]) = PlacedFilename(placed[j])
    /\ \E k \in DOMAIN placed :
          /\ placed[k].dest.name = suffixed_name(PlacedFilename(placed[k]), 2)
          /\ [folder |-> placed[k].dest.folder, name |-> PlacedFilename(placed[k])]
                 \in EarlierRunFs.files

\* ---- C28 ----
\* the value a spec's date_filter shows: None, or the fields of the object
FilterShown(spec) == IF spec.date_filter = 0 THEN None ELSE Some(heap[spec.date_filter])
WithoutDateFilters(specs) == [k \in DOMAIN specs |-> [specs[k] EXCEPT !.date_filter = 0]]
RECURSIVE AlbumPhotoCount(_, _)
AlbumPhotoCount(as, k) ==
    IF k > Len(as) THEN 0 ELSE Len(as[k].photos) + AlbumPhotoCount(as, k + 1)
\* C30: after parse, match and create_albums every photo of the match
\* result has been copied or moved at most once, and the photos of the
\* returned albums number len(photos) - len(unmatched), also when the prompt
\* names the same album twice
MaterializedAtMostOnce ==
    "create_albums" \in Range(steps) =>
        /\ \A i \in DOMAIN placed : \A j \in DOMAIN placed :
              placed[i].photo = placed[j].photo => i = j
        /\ AlbumPhotoCount(albums, 1) = Len(photos) - Len(unmatched)

====
